---- MODULE Spec2Model ----
(***************************************************************************)
(* A state-machine model of three resources of the AzureRM provider:       *)
(*                                                                         *)
(*   - azurerm_log_analytics_cluster_customer_managed_key                  *)
(*       (src/unnamed/part_003)                                            *)
(*   - azurerm_ai_foundry                                                  *)
(*       (src/internal/services/machinelearning/ai_foundry_resource.go)    *)
(*   - azurerm_data_factory_integration_runtime_azure_ssis                 *)
(*       (src/internal/services/datafactory/                               *)
(*        data_factory_integration_runtime_azure_ssis_resource.go)         *)
(*                                                                         *)
(* Every handler (Create, Read, Update, Delete, importer) is a sequence of *)
(* steps, one per blocking call it makes (lock acquisition, API call): a   *)
(* step is the call together with the code around it that runs without    *)
(* blocking.                                                               *)
(* A Go pointer is a sequence of length at most one: <<>> is nil, <<v>> is *)
(* a pointer to v.                                                         *)
(***************************************************************************)
EXTENDS Integers, Sequences, FiniteSets, TLC

VARIABLES
    resource,   \* the resource type whose instances this behaviour manages
    pc,         \* pc[p]: position of instance p's handler ("idle": none running)
    op,         \* op[p]: the handler instance p runs ("none": none)
    d,          \* d[p]: the ResourceData of instance p (tracked ID and fields)
    loc,        \* loc[p]: the running handler's local variables
    log,        \* log[p]: the API calls the running handler has made, in order
    returned,   \* the handler return this step made, if any: who, what, the calls
    locks,      \* locks[name]: whether the lock of that name is held
    cluster,    \* cluster[id]: the Log Analytics cluster as Azure holds it
    workspace,  \* the machine learning workspace as Azure holds it
    runtime     \* the integration runtime as Azure holds it

vars == <<resource, pc, op, d, loc, log, returned, locks, cluster, workspace, runtime>>

(***************************************************************************)
(* Bounds of the model.                                                    *)
(***************************************************************************)
NumInstances == 2
NumClusters == 1

Procs == 1..NumInstances

(***************************************************************************)
(* Go pointers.                                                            *)
(***************************************************************************)
Nil == <<>>

PointerTo(v) == <<v>>

PointerFrom(ptr) == IF ptr = Nil THEN "" ELSE ptr[1]

\* pointer.From of a pointer to a resource ID (a sequence of segments).
PointerFromID(ptr) == IF ptr = Nil THEN <<>> ELSE ptr[1]

(***************************************************************************)
(* The three resource types, and the instances of each that run handlers.  *)
(* Only the customer managed key has sibling instances that share a parent *)
(* (the cluster); the orchestration engine runs one handler at a time for  *)
(* one instance.                                                           *)
(***************************************************************************)
CMK == "azurerm_log_analytics_cluster_customer_managed_key"

AIF == "azurerm_ai_foundry"

SSIS == "azurerm_data_factory_integration_runtime_azure_ssis"

ResourceTypes == {CMK, AIF, SSIS}

Instances == IF resource = CMK THEN Procs ELSE {1}

(***************************************************************************)
(* The API calls of a handler.                                             *)
(***************************************************************************)
\* A call other than Get, and whether it returned an error.
Event(call, failed) ==
    [call |-> call, failed |-> failed,
     status |-> IF failed THEN "error" ELSE "ok", Model |-> <<>>]

\* A Get, with the response it received.
GetEvent(resp) ==
    [call |-> "Get", failed |-> resp.status # "ok",
     status |-> resp.status, Model |-> resp.Model]

\* A call other than Get that answered with the given status.
StatusEvent(call, status) ==
    [call |-> call, failed |-> status # "ok", status |-> status, Model |-> <<>>]

Logged(p, call, failed) == Append(log[p], Event(call, failed))

LoggedGet(p, resp) == Append(log[p], GetEvent(resp))

MutatingCalls == {"CreateOrUpdate", "CreateOrUpdateThenPoll", "Delete", "DeleteThenPoll"}

Writes(l) == {i \in 1..Len(l) : l[i].call \in MutatingCalls}

Gets(l) == {i \in 1..Len(l) : l[i].call = "Get"}

(***************************************************************************)
(* Resource IDs and key IDs are strings; a string is modelled as the        *)
(* sequence of its segments, and the empty string as <<>>.                  *)
(***************************************************************************)
EmptyString == <<>>

ClusterIDs == {<<"clusters", i>> : i \in 1..NumClusters}

MalformedClusterID == <<"clusters">>

\* clusters.ParseClusterID: the parsed ID, or an error.
ParseClusterID(s) ==
    IF Len(s) = 2 /\ s[1] = "clusters"
    THEN [err |-> FALSE, id |-> s]
    ELSE [err |-> TRUE, id |-> EmptyString]

\* A nested item ID is <vault base URL>/<type>/<name>[/<version>].
NestedItemTypes == {"keys", "secrets", "certificates"}

VaultUrls == {"https://vault1"}

MalformedVaultUrl == "vault1"

ParseOptionallyVersionedNestedItemID(s) ==
    IF Len(s) \in {3, 4} /\ s[1] \in VaultUrls /\ s[2] \in NestedItemTypes
    THEN [err |-> FALSE,
          KeyVaultBaseUrl |-> s[1],
          NestedItemType |-> s[2],
          Name |-> s[3],
          Version |-> IF Len(s) = 4 THEN s[4] ELSE ""]
    ELSE [err |-> TRUE, KeyVaultBaseUrl |-> "", NestedItemType |-> "",
          Name |-> "", Version |-> ""]

\* keyVaultParse.NewNestedItemID(...) followed by ID(): the key ID string.
NewNestedItemID(keyVaultUri, nestedItemType, name, version) ==
    IF keyVaultUri \in VaultUrls
    THEN [err |-> FALSE,
          ID |-> <<keyVaultUri, nestedItemType, name>>
                 \o (IF version = "" THEN <<>> ELSE <<version>>)]
    ELSE [err |-> TRUE, ID |-> EmptyString]

\* The values key_vault_key_id takes in a configuration.
KeyVaultKeyIds ==
    { <<"https://vault1", "keys", "key1">>,
      <<"https://vault1", "keys", "key2", "v2">>,
      <<"https://vault1">> }

(***************************************************************************)
(* The Log Analytics cluster as the API holds and returns it.              *)
(***************************************************************************)
KeyVaultProperties(uri, name, version) ==
    [KeyVaultUri |-> uri, KeyName |-> name, KeyVersion |-> version]

ClusterProperties(kvp, workspaces, billing) ==
    [KeyVaultProperties |-> kvp,
     AssociatedWorkspaces |-> workspaces,
     BillingType |-> billing]

\* The clusters a behaviour may start with: absent; without a key; with the
\* three empty strings a Delete leaves; with a key (and no version); with a
\* key whose vault URL does not parse.
ExistingCluster(kvp) ==
    [exists |-> TRUE,
     Properties |-> ClusterProperties(kvp, PointerTo("workspace1"), PointerTo("Cluster"))]

NoCluster == [exists |-> FALSE, Properties |-> ClusterProperties(Nil, Nil, Nil)]

InitialClusters ==
    { NoCluster,
      ExistingCluster(Nil),
      ExistingCluster(PointerTo(KeyVaultProperties(PointerTo(""), PointerTo(""), PointerTo("")))),
      ExistingCluster(PointerTo(KeyVaultProperties(PointerTo("https://vault1"), PointerTo("key0"), Nil))),
      ExistingCluster(PointerTo(KeyVaultProperties(PointerTo(MalformedVaultUrl), PointerTo("key0"), PointerTo("v0")))) }

\* client.Get: what the API may answer for a cluster.  A response is an error
\* (not found, or any other), or a model, which may be nil or lack Properties.
ClusterGetResponses(id) ==
    IF cluster[id].exists
    THEN { [status |-> "ok", Model |-> PointerTo([Properties |-> PointerTo(cluster[id].Properties)])],
           [status |-> "ok", Model |-> PointerTo([Properties |-> Nil])],
           [status |-> "ok", Model |-> Nil],
           [status |-> "error", Model |-> Nil] }
    ELSE { [status |-> "notfound", Model |-> Nil],
           [status |-> "error", Model |-> Nil] }

\* client.CreateOrUpdateThenPoll: the call fails or succeeds; a failed call
\* (a poll that gives up) may or may not have changed the cluster.
WriteOutcomes == {"ok", "failed", "failed-applied"}

\* The cluster after the API accepted a payload: AssociatedWorkspaces is read
\* only and keeps its value.
ClusterAfterWrite(c, payload) ==
    [c EXCEPT !.Properties =
        [payload.Properties[1] EXCEPT
            !.AssociatedWorkspaces = c.Properties.AssociatedWorkspaces]]

(***************************************************************************)
(* ResourceData of a customer managed key.                                 *)
(***************************************************************************)
CmkEmptyData ==
    [id |-> EmptyString,
     log_analytics_cluster_id |-> EmptyString,
     key_vault_key_id |-> EmptyString]

CmkConfigs ==
    [log_analytics_cluster_id : ClusterIDs \cup {MalformedClusterID},
     key_vault_key_id : KeyVaultKeyIds]

\* The locals of a running handler: the ID it parsed or built, the payload
\* it prepared, and the fields d.HasChange reports as changed.
NoLocals == [id |-> EmptyString, payload |-> Nil, changed |-> {}]

\* When a handler returns with the ID unset the engine drops the record.
Tracked(data, empty) == IF data.id = EmptyString THEN empty ELSE data


(***************************************************************************)
(* Entering and leaving a handler.                                         *)
(***************************************************************************)
Idle(p) == p \in Instances /\ pc[p] = "idle"

\* The engine calls Create for an instance it does not track, and Read,
\* Update and Delete for one it tracks.
IsTracked(p) == d[p].id # EmptyString

NoReturn == [p |-> 0, op |-> "none", err |-> "none", log |-> <<>>]

\* Handler `name` of instance p returns err (err = "nil": return nil) after
\* the API calls `calls`, leaving the ResourceData `data`.
Return(p, name, err, data, empty, calls) ==
    /\ pc' = [pc EXCEPT ![p] = "idle"]
    /\ op' = [op EXCEPT ![p] = "none"]
    /\ d' = [d EXCEPT ![p] = Tracked(data, empty)]
    /\ loc' = [loc EXCEPT ![p] = NoLocals]
    /\ log' = [log EXCEPT ![p] = <<>>]
    /\ returned' = [p |-> p, op |-> name, err |-> err, log |-> calls]

\* The handler goes on to its next blocking call.
Goto(p, position) ==
    /\ pc' = [pc EXCEPT ![p] = position]
    /\ returned' = NoReturn

\* locks.ByID(name) blocks until the lock of that name is free, then holds it.
ByID(name) ==
    /\ ~locks[name]
    /\ locks' = [locks EXCEPT ![name] = TRUE]

\* locks.UnlockByID(name), which the handlers defer to their return.
UnlockByID(name) == locks' = [locks EXCEPT ![name] = FALSE]

(***************************************************************************)
(* resourceLogAnalyticsClusterCustomerManagedKeyRead, lines 189-238: the   *)
(* error returned and the ResourceData left, given the response to Get.    *)
(***************************************************************************)
CmkFlattenKeyVaultKeyId(resp) ==
    IF resp.Model = Nil \/ resp.Model[1].Properties = Nil
       \/ resp.Model[1].Properties[1].KeyVaultProperties = Nil
    THEN [err |-> FALSE, ID |-> EmptyString]
    ELSE LET kvProps == resp.Model[1].Properties[1].KeyVaultProperties[1]
             keyVaultUri == PointerFrom(kvProps.KeyVaultUri)
             keyName == PointerFrom(kvProps.KeyName)
             keyVersion == PointerFrom(kvProps.KeyVersion)
         IN IF keyVaultUri # "" /\ keyName # ""
            THEN NewNestedItemID(keyVaultUri, "keys", keyName, keyVersion)
            ELSE [err |-> FALSE, ID |-> EmptyString]

\* Lines 209-235: the cluster fetched, set into the ResourceData.
CmkFlatten(data, resp) ==
    LET key == CmkFlattenKeyVaultKeyId(resp)
    IN IF key.err
       THEN [err |-> "keyid", d |-> data]
       ELSE IF key.ID = EmptyString
       THEN [err |-> "nil", d |-> [data EXCEPT !.id = EmptyString]]
       ELSE [err |-> "nil",
             d |-> [data EXCEPT !.log_analytics_cluster_id = data.id,
                                !.key_vault_key_id = key.ID]]

\* Read as it would be if it returned a not-found response as an error.
CmkReadResult_NotFoundIsError(data, resp) ==
    IF resp.status \in {"notfound", "error"}
    THEN [err |-> "retrieving", d |-> data]
    ELSE CmkFlatten(data, resp)

CmkReadResult(data, resp) ==
    IF resp.status = "notfound"
    THEN [err |-> "nil", d |-> [data EXCEPT !.id = EmptyString]]
    ELSE IF resp.status = "error"
    THEN [err |-> "retrieving", d |-> data]
    ELSE CmkFlatten(data, resp)

\* The body of Read for instance p, called as (or by) handler `name`.
CmkReadBody(p, name) ==
    /\ IF ParseClusterID(d[p].id).err
       THEN Return(p, name, "parse", d[p], CmkEmptyData, log[p])
       ELSE \E resp \in ClusterGetResponses(d[p].id) :
              LET r == CmkReadResult(d[p], resp)
              IN Return(p, name, r.err, r.d, CmkEmptyData,
                        LoggedGet(p, resp))
    /\ UNCHANGED <<resource, cluster, workspace, runtime>>

resourceLogAnalyticsClusterCustomerManagedKeyRead(p) ==
    /\ resource = CMK
    /\ Idle(p)
    /\ IsTracked(p)
    /\ CmkReadBody(p, "Read")
    /\ UNCHANGED locks

(***************************************************************************)
(* The importer, lines 38-41: the ID given must parse as a cluster ID.     *)
(***************************************************************************)
resourceLogAnalyticsClusterCustomerManagedKeyImporter(p) ==
    /\ resource = CMK
    /\ Idle(p)
    /\ ~IsTracked(p)
    /\ \E s \in ClusterIDs \cup {MalformedClusterID} :
         IF ParseClusterID(s).err
         THEN Return(p, "Import", "parse", CmkEmptyData, CmkEmptyData, <<>>)
         ELSE Return(p, "Import", "nil", [CmkEmptyData EXCEPT !.id = s], CmkEmptyData, <<>>)
    /\ UNCHANGED <<resource, locks, cluster, workspace, runtime>>

(***************************************************************************)
(* What Create, Update and Delete of the customer managed key share.       *)
(***************************************************************************)
CmkAt(p, name, position) ==
    /\ resource = CMK
    /\ p \in Instances
    /\ op[p] = name
    /\ pc[p] = position

\* Lines 70-73, 142-145, 245-248: the handler is entered with ResourceData
\* `data`; it returns at once when the cluster ID `s` does not parse.
CmkEnter(p, name, data, s) ==
    /\ resource = CMK
    /\ Idle(p)
    /\ LET id == ParseClusterID(s)
       IN IF id.err
          THEN Return(p, name, "parse", data, CmkEmptyData, <<>>)
          ELSE /\ Goto(p, "lock")
               /\ op' = [op EXCEPT ![p] = name]
               /\ d' = [d EXCEPT ![p] = data]
               /\ loc' = [loc EXCEPT ![p] = [NoLocals EXCEPT !.id = id.id]]
               /\ UNCHANGED log
    /\ UNCHANGED <<resource, locks, cluster, workspace, runtime>>

\* The checks on the response to Get (lines 78-95, 155-171, 253-270).
CmkCheckCluster(resp) ==
    IF resp.status = "notfound" THEN "notfound"
    ELSE IF resp.status = "error" THEN "retrieving"
    ELSE IF resp.Model = Nil THEN "modelnil"
    ELSE IF resp.Model[1].Properties = Nil THEN "propsnil"
    ELSE "nil"

\* Lines 115-119 and 176-180: the key of the configuration as API properties.
CmkExpandKeyVaultProperties(keyId) ==
    KeyVaultProperties(PointerTo(keyId.KeyVaultBaseUrl),
                       PointerTo(keyId.Name),
                       PointerTo(keyId.Version))

\* A payload built anew from the key alone, instead of from the model fetched.
CmkPayload_FromKeyAlone(model, kvp) ==
    [Properties |-> PointerTo(ClusterProperties(PointerTo(kvp), Nil, Nil))]

\* The model fetched, with AssociatedWorkspaces cleared and the key replaced.
CmkPayload(model, kvp) ==
    [model EXCEPT !.Properties =
        PointerTo([model.Properties[1] EXCEPT
                      !.AssociatedWorkspaces = Nil,
                      !.KeyVaultProperties = PointerTo(kvp)])]

\* A handler that asked for the lock of its cluster a second time: it takes
\* the lock and then waits for it.
CmkLock_Twice(p, name) ==
    /\ CmkAt(p, name, "lock")
    /\ ByID(loc[p].id)
    /\ Goto(p, "lock")
    /\ UNCHANGED <<resource, op, d, loc, log, cluster, workspace, runtime>>

\* The lock step of a handler: locks.ByID(id.ID()).
CmkLock(p, name) ==
    /\ CmkAt(p, name, "lock")
    /\ ByID(loc[p].id)
    /\ Goto(p, "get")
    /\ UNCHANGED <<resource, op, d, loc, log, cluster, workspace, runtime>>

\* A return that skipped the deferred UnlockByID.
CmkReturn_NoUnlock(p, err, data, calls) ==
    /\ Return(p, op[p], err, data, CmkEmptyData, calls)
    /\ UNCHANGED locks

\* A handler that holds the lock returns: the deferred UnlockByID runs.
CmkReturn(p, err, data, calls) ==
    /\ Return(p, op[p], err, data, CmkEmptyData, calls)
    /\ UnlockByID(loc[p].id)

\* The step that issues Get: the handler returns the error `r.err`, or goes
\* on to write the payload `r.payload`.
CmkAfterGet(p, resp, r) ==
    IF r.err # "nil"
    THEN CmkReturn(p, r.err, d[p], LoggedGet(p, resp))
    ELSE /\ Goto(p, "write")
         /\ loc' = [loc EXCEPT ![p].payload = r.payload]
         /\ log' = [log EXCEPT ![p] = LoggedGet(p, resp)]
         /\ UNCHANGED <<op, d, locks>>

\* client.CreateOrUpdateThenPoll(ctx, *id, *model) with the payload prepared.
CmkCreateOrUpdateThenPoll(p, outcome) ==
    cluster' = IF outcome = "failed"
               THEN cluster
               ELSE [cluster EXCEPT ![loc[p].id] =
                        ClusterAfterWrite(@, loc[p].payload[1])]

(***************************************************************************)
(* resourceLogAnalyticsClusterCustomerManagedKeyCreate, lines 65-135.      *)
(***************************************************************************)
\* Lines 97-101: the cluster already has a key.
CmkKeyExists(props) ==
    /\ props.KeyVaultProperties # Nil
    /\ LET keyProps == props.KeyVaultProperties[1]
       IN keyProps.KeyName # Nil /\ keyProps.KeyName[1] # ""

\* Create as it would be without the check of lines 97-101.
CmkCreatePrepare_NoExistsCheck(resp, keyVaultKeyId) ==
    LET checked == CmkCheckCluster(resp)
        keyId == ParseOptionallyVersionedNestedItemID(keyVaultKeyId)
    IN IF checked # "nil"
       THEN [err |-> checked, payload |-> Nil]
       ELSE IF keyId.err
       THEN [err |-> "keyparse", payload |-> Nil]
       ELSE [err |-> "nil",
             payload |-> PointerTo(CmkPayload(resp.Model[1],
                                              CmkExpandKeyVaultProperties(keyId)))]

\* Lines 78-119: the error Create returns after Get, or the payload it sends.
CmkCreatePrepare(resp, keyVaultKeyId) ==
    LET checked == CmkCheckCluster(resp)
        keyId == ParseOptionallyVersionedNestedItemID(keyVaultKeyId)
    IN IF checked # "nil"
       THEN [err |-> checked, payload |-> Nil]
       ELSE IF CmkKeyExists(resp.Model[1].Properties[1])
       THEN [err |-> "exists", payload |-> Nil]
       ELSE IF keyId.err
       THEN [err |-> "keyparse", payload |-> Nil]
       ELSE [err |-> "nil",
             payload |-> PointerTo(CmkPayload(resp.Model[1],
                                              CmkExpandKeyVaultProperties(keyId)))]

\* Lines 65-73: the configuration is read and the cluster ID parsed.
resourceLogAnalyticsClusterCustomerManagedKeyCreate(p) ==
    /\ ~IsTracked(p)
    /\ \E cfg \in CmkConfigs :
         CmkEnter(p, "Create",
                  [CmkEmptyData EXCEPT
                      !.log_analytics_cluster_id = cfg.log_analytics_cluster_id,
                      !.key_vault_key_id = cfg.key_vault_key_id],
                  cfg.log_analytics_cluster_id)

\* Create as it would be without lines 75-76: it goes on to Get at once.
resourceLogAnalyticsClusterCustomerManagedKeyCreate_NoLock(p) ==
    /\ CmkAt(p, "Create", "lock")
    /\ Goto(p, "get")
    /\ UNCHANGED <<resource, op, d, loc, log, locks, cluster, workspace, runtime>>

\* Lines 75-76.
resourceLogAnalyticsClusterCustomerManagedKeyCreate_ByID(p) ==
    CmkLock(p, "Create")

\* Lines 78-119.
resourceLogAnalyticsClusterCustomerManagedKeyCreate_Get(p) ==
    /\ CmkAt(p, "Create", "get")
    /\ \E resp \in ClusterGetResponses(loc[p].id) :
         CmkAfterGet(p, resp, CmkCreatePrepare(resp, d[p].key_vault_key_id))
    /\ UNCHANGED <<resource, cluster, workspace, runtime>>

\* Lines 121-123.
resourceLogAnalyticsClusterCustomerManagedKeyCreate_CreateOrUpdateThenPoll(p) ==
    /\ CmkAt(p, "Create", "write")
    /\ \E outcome \in WriteOutcomes :
         /\ CmkCreateOrUpdateThenPoll(p, outcome)
         /\ IF outcome # "ok"
            THEN CmkReturn(p, "write", d[p], Logged(p, "CreateOrUpdateThenPoll", TRUE))
            ELSE /\ Goto(p, "wait")
                 /\ log' = [log EXCEPT ![p] = Logged(p, "CreateOrUpdateThenPoll", FALSE)]
                 /\ UNCHANGED <<op, d, loc, locks>>
    /\ UNCHANGED <<resource, workspace, runtime>>

\* Lines 125-133: the wait for the cluster's state, then d.SetId(id.ID()).
resourceLogAnalyticsClusterCustomerManagedKeyCreate_WaitForState(p) ==
    /\ CmkAt(p, "Create", "wait")
    /\ \E outcome \in {"ok", "logAnalyticsClusterWaitForState", "WaitForStateContext"} :
         IF outcome # "ok"
         THEN CmkReturn(p, outcome, d[p], log[p])
         ELSE /\ Goto(p, "read")
              /\ d' = [d EXCEPT ![p].id = loc[p].id]
              /\ UNCHANGED <<op, loc, log, locks>>
    /\ UNCHANGED <<resource, cluster, workspace, runtime>>

\* Line 134: return Read(d, meta).
resourceLogAnalyticsClusterCustomerManagedKeyCreate_Read(p) ==
    /\ CmkAt(p, "Create", "read")
    /\ CmkReadBody(p, "Create")
    /\ UnlockByID(loc[p].id)

(***************************************************************************)
(* resourceLogAnalyticsClusterCustomerManagedKeyUpdate, lines 137-187.     *)
(***************************************************************************)
\* Lines 155-180: the error Update returns after Get, or the payload it sends.
CmkUpdatePrepare(resp, keyId) ==
    LET checked == CmkCheckCluster(resp)
    IN IF checked # "nil"
       THEN [err |-> checked, payload |-> Nil]
       ELSE [err |-> "nil",
             payload |-> PointerTo(CmkPayload(resp.Model[1],
                                              CmkExpandKeyVaultProperties(keyId)))]

\* Lines 137-145: the new key of the configuration, and the tracked ID parsed.
resourceLogAnalyticsClusterCustomerManagedKeyUpdate(p) ==
    /\ IsTracked(p)
    /\ \E key \in KeyVaultKeyIds :
         CmkEnter(p, "Update", [d[p] EXCEPT !.key_vault_key_id = key], d[p].id)

\* Lines 147-148.
resourceLogAnalyticsClusterCustomerManagedKeyUpdate_ByID(p) ==
    CmkLock(p, "Update")

\* Lines 150-180: the key ID is parsed before the Get is issued.
resourceLogAnalyticsClusterCustomerManagedKeyUpdate_Get(p) ==
    /\ CmkAt(p, "Update", "get")
    /\ LET keyId == ParseOptionallyVersionedNestedItemID(d[p].key_vault_key_id)
       IN IF keyId.err
          THEN CmkReturn(p, "keyparse", d[p], log[p])
          ELSE \E resp \in ClusterGetResponses(loc[p].id) :
                 CmkAfterGet(p, resp, CmkUpdatePrepare(resp, keyId))
    /\ UNCHANGED <<resource, cluster, workspace, runtime>>

\* Lines 182-184.
resourceLogAnalyticsClusterCustomerManagedKeyUpdate_CreateOrUpdateThenPoll(p) ==
    /\ CmkAt(p, "Update", "write")
    /\ \E outcome \in WriteOutcomes :
         /\ CmkCreateOrUpdateThenPoll(p, outcome)
         /\ IF outcome # "ok"
            THEN CmkReturn(p, "write", d[p], Logged(p, "CreateOrUpdateThenPoll", TRUE))
            ELSE /\ Goto(p, "read")
                 /\ log' = [log EXCEPT ![p] = Logged(p, "CreateOrUpdateThenPoll", FALSE)]
                 /\ UNCHANGED <<op, d, loc, locks>>
    /\ UNCHANGED <<resource, workspace, runtime>>

\* Line 186: return Read(d, meta).
resourceLogAnalyticsClusterCustomerManagedKeyUpdate_Read(p) ==
    /\ CmkAt(p, "Update", "read")
    /\ CmkReadBody(p, "Update")
    /\ UnlockByID(loc[p].id)

(***************************************************************************)
(* resourceLogAnalyticsClusterCustomerManagedKeyDelete, lines 240-295.     *)
(***************************************************************************)
\* Delete as it would be if it sent nil for KeyVaultProperties instead of the
\* empty strings of lines 284-288.
CmkDeletePrepare_NilKey(resp) ==
    LET checked == CmkCheckCluster(resp)
    IN IF checked # "nil"
       THEN [err |-> checked, payload |-> Nil]
       ELSE IF ~CmkKeyExists(resp.Model[1].Properties[1])
       THEN [err |-> "nokey", payload |-> Nil]
       ELSE [err |-> "nil",
             payload |-> PointerTo([resp.Model[1] EXCEPT !.Properties =
                 PointerTo([resp.Model[1].Properties[1] EXCEPT
                               !.AssociatedWorkspaces = Nil,
                               !.KeyVaultProperties = Nil])])]

\* Delete as it would be without the checks of lines 272-278.
CmkDeletePrepare_NoKeyCheck(resp) ==
    LET checked == CmkCheckCluster(resp)
    IN IF checked # "nil"
       THEN [err |-> checked, payload |-> Nil]
       ELSE [err |-> "nil",
             payload |-> PointerTo(CmkPayload(resp.Model[1],
                 KeyVaultProperties(PointerTo(""), PointerTo(""), PointerTo(""))))]

\* Lines 253-288: the error Delete returns after Get, or the payload it sends.
CmkDeletePrepare(resp) ==
    LET checked == CmkCheckCluster(resp)
    IN IF checked # "nil"
       THEN [err |-> checked, payload |-> Nil]
       ELSE LET props == resp.Model[1].Properties[1]
            IN IF props.KeyVaultProperties = Nil
               THEN [err |-> "nokey", payload |-> Nil]
               ELSE IF props.KeyVaultProperties[1].KeyName = Nil
                       \/ props.KeyVaultProperties[1].KeyName[1] = ""
               THEN [err |-> "nokey", payload |-> Nil]
               ELSE [err |-> "nil",
                     payload |-> PointerTo(CmkPayload(resp.Model[1],
                         KeyVaultProperties(PointerTo(""), PointerTo(""), PointerTo(""))))]

\* Lines 240-248.
resourceLogAnalyticsClusterCustomerManagedKeyDelete(p) ==
    /\ IsTracked(p)
    /\ CmkEnter(p, "Delete", d[p], d[p].id)

\* Delete as it would be without lines 250-251: it goes on to Get at once,
\* and its deferred unlock releases whatever lock is held under that name.
resourceLogAnalyticsClusterCustomerManagedKeyDelete_NoLock(p) ==
    /\ CmkAt(p, "Delete", "lock")
    /\ Goto(p, "get")
    /\ UNCHANGED <<resource, op, d, loc, log, locks, cluster, workspace, runtime>>

\* Lines 250-251.
resourceLogAnalyticsClusterCustomerManagedKeyDelete_ByID(p) ==
    CmkLock(p, "Delete")

\* Lines 253-288.
resourceLogAnalyticsClusterCustomerManagedKeyDelete_Get(p) ==
    /\ CmkAt(p, "Delete", "get")
    /\ \E resp \in ClusterGetResponses(loc[p].id) :
         CmkAfterGet(p, resp, CmkDeletePrepare(resp))
    /\ UNCHANGED <<resource, cluster, workspace, runtime>>

\* Lines 290-294; after a Delete that returns nil the engine drops the record.
resourceLogAnalyticsClusterCustomerManagedKeyDelete_CreateOrUpdateThenPoll(p) ==
    /\ CmkAt(p, "Delete", "write")
    /\ \E outcome \in WriteOutcomes :
         /\ CmkCreateOrUpdateThenPoll(p, outcome)
         /\ IF outcome # "ok"
            THEN CmkReturn(p, "write", d[p], Logged(p, "CreateOrUpdateThenPoll", TRUE))
            ELSE CmkReturn(p, "nil", CmkEmptyData, Logged(p, "CreateOrUpdateThenPoll", FALSE))
    /\ UNCHANGED <<resource, workspace, runtime>>

CmkNext ==
    \E p \in Procs :
        \/ resourceLogAnalyticsClusterCustomerManagedKeyImporter(p)
        \/ resourceLogAnalyticsClusterCustomerManagedKeyRead(p)
        \/ resourceLogAnalyticsClusterCustomerManagedKeyCreate(p)
        \/ resourceLogAnalyticsClusterCustomerManagedKeyCreate_ByID(p)
        \/ resourceLogAnalyticsClusterCustomerManagedKeyCreate_Get(p)
        \/ resourceLogAnalyticsClusterCustomerManagedKeyCreate_CreateOrUpdateThenPoll(p)
        \/ resourceLogAnalyticsClusterCustomerManagedKeyCreate_WaitForState(p)
        \/ resourceLogAnalyticsClusterCustomerManagedKeyCreate_Read(p)
        \/ resourceLogAnalyticsClusterCustomerManagedKeyUpdate(p)
        \/ resourceLogAnalyticsClusterCustomerManagedKeyUpdate_ByID(p)
        \/ resourceLogAnalyticsClusterCustomerManagedKeyUpdate_Get(p)
        \/ resourceLogAnalyticsClusterCustomerManagedKeyUpdate_CreateOrUpdateThenPoll(p)
        \/ resourceLogAnalyticsClusterCustomerManagedKeyUpdate_Read(p)
        \/ resourceLogAnalyticsClusterCustomerManagedKeyDelete(p)
        \/ resourceLogAnalyticsClusterCustomerManagedKeyDelete_ByID(p)
        \/ resourceLogAnalyticsClusterCustomerManagedKeyDelete_Get(p)
        \/ resourceLogAnalyticsClusterCustomerManagedKeyDelete_CreateOrUpdateThenPoll(p)

(***************************************************************************)
(*                              azurerm_ai_foundry                         *)
(*                                                                         *)
(* Resource IDs of the AI Foundry hub and of what it refers to: a resource *)
(* ID is <<kind, name>>; every parser accepts the IDs of its own kind.     *)
(***************************************************************************)
ParseResourceID(kind, s) ==
    IF Len(s) = 2 /\ s[1] = kind
    THEN [err |-> FALSE, id |-> s]
    ELSE [err |-> TRUE, id |-> EmptyString]

ParseWorkspaceID(s) == ParseResourceID("workspaces", s)

ParseStorageAccountID(s) == ParseResourceID("storageAccounts", s)

ParseKeyVaultID(s) == ParseResourceID("vaults", s)

ParseComponentID(s) == ParseResourceID("components", s)

ParseRegistryID(s) == ParseResourceID("registries", s)

ParseUserAssignedIdentityID(s) == ParseResourceID("userAssignedIdentities", s)

\* strings.ToLower, on the strings of the model.
ToLower(s) ==
    CASE s = "Hub" -> "hub"
      [] s = "HUB" -> "hub"
      [] s = "Project" -> "project"
      [] s = "Components" -> "components"
      [] s = "userAssignedIdentities" -> "userassignedidentities"
      [] s = "UserAssignedIdentities" -> "userassignedidentities"
      [] OTHER -> s

\* strings.EqualFold.
EqualFold(s, t) == ToLower(s) = ToLower(t)

\* components.ParseComponentIDInsensitively: the kind segment is matched
\* without regard to case and comes back in its canonical case.
ParseComponentIDInsensitively(s) ==
    IF Len(s) = 2 /\ EqualFold(s[1], "components")
    THEN [err |-> FALSE, id |-> <<"components", s[2]>>]
    ELSE [err |-> TRUE, id |-> EmptyString]

WorkspaceNames == {"hub1"}

\* workspaces.NewWorkspaceID(subscriptionId, resourceGroupName, name).
NewWorkspaceID(name) == <<"workspaces", name>>

WorkspaceIDs == {NewWorkspaceID(n) : n \in WorkspaceNames}

MalformedWorkspaceID == <<"workspaces">>

StorageAccountID == <<"storageAccounts", "sa1">>

MalformedStorageAccountID == <<"storageAccounts">>

KeyVaultID == <<"vaults", "kv1">>

ComponentID == <<"components", "ai1">>

RegistryID == <<"registries", "cr1">>

UserAssignedIdentityID == <<"userAssignedIdentities", "id1">>

(***************************************************************************)
(* The workspace as the API holds and returns it.                          *)
(***************************************************************************)
WorkspaceProperties(storageAccount, keyVault, applicationInsights,
                    publicNetworkAccess, description) ==
    [StorageAccount |-> storageAccount,
     KeyVault |-> keyVault,
     ApplicationInsights |-> applicationInsights,
     PublicNetworkAccess |-> publicNetworkAccess,
     Description |-> description,
     ContainerRegistry |-> Nil,
     PrimaryUserAssignedIdentity |-> Nil]

Workspace(kind, props) == [Kind |-> kind, Properties |-> props]

HubProperties ==
    WorkspaceProperties(PointerTo(StorageAccountID), PointerTo(KeyVaultID),
                        PointerTo(<<"Components", "ai1">>), PointerTo("Enabled"), Nil)

\* The workspaces a behaviour may start with: none; a hub; a hub whose kind
\* is spelled in lower case; a workspace of another kind; one without kind;
\* a hub the API returns without storageAccount, or without
\* publicNetworkAccess.
InitialWorkspaces ==
    { Nil,
      PointerTo(Workspace(PointerTo("Hub"), PointerTo(HubProperties))),
      PointerTo(Workspace(PointerTo("hub"), PointerTo(HubProperties))),
      PointerTo(Workspace(PointerTo("Project"), PointerTo(HubProperties))),
      PointerTo(Workspace(Nil, PointerTo(HubProperties))),
      PointerTo(Workspace(PointerTo("Hub"),
                          PointerTo([HubProperties EXCEPT !.StorageAccount = Nil]))),
      PointerTo(Workspace(PointerTo("Hub"),
                          PointerTo([HubProperties EXCEPT !.PublicNetworkAccess = Nil]))) }

\* client.Get: what the API may answer for the workspace.
WorkspaceGetResponses ==
    IF workspace # Nil
    THEN { [status |-> "ok", Model |-> workspace],
           [status |-> "ok", Model |-> PointerTo([workspace[1] EXCEPT !.Properties = Nil])],
           [status |-> "ok", Model |-> Nil],
           [status |-> "error", Model |-> Nil] }
    ELSE { [status |-> "notfound", Model |-> Nil],
           [status |-> "error", Model |-> Nil] }

(***************************************************************************)
(* AIFoundryModel: the ResourceData of an AI Foundry hub.                   *)
(***************************************************************************)
AifEmptyData ==
    [id |-> EmptyString,
     name |-> "",
     storage_account_id |-> EmptyString,
     key_vault_id |-> EmptyString,
     application_insights_id |-> EmptyString,
     public_network_access |-> "",
     description |-> "",
     container_registry_id |-> EmptyString,
     primary_user_assigned_identity |-> EmptyString]

\* The configurations: every combination of the arguments below without a
\* container registry or a primary identity, and one configuration with
\* each of the two.
AifBaseConfigs ==
    [name : WorkspaceNames,
     storage_account_id : {StorageAccountID, MalformedStorageAccountID},
     key_vault_id : {KeyVaultID},
     application_insights_id : {EmptyString, ComponentID},
     public_network_access : {"Enabled", "Disabled"},
     description : {"", "d1"},
     container_registry_id : {EmptyString},
     primary_user_assigned_identity : {EmptyString}]

AifPlainConfig ==
    [name |-> "hub1",
     storage_account_id |-> StorageAccountID,
     key_vault_id |-> KeyVaultID,
     application_insights_id |-> ComponentID,
     public_network_access |-> "Enabled",
     description |-> "d1",
     container_registry_id |-> EmptyString,
     primary_user_assigned_identity |-> EmptyString]

AifConfigs ==
    AifBaseConfigs
        \cup { [AifPlainConfig EXCEPT !.container_registry_id = RegistryID],
               [AifPlainConfig EXCEPT
                   !.primary_user_assigned_identity = UserAssignedIdentityID] }

\* metadata.Decode: the configuration as the model the handler works on.
AifDecode(data, cfg) ==
    [data EXCEPT !.name = cfg.name,
                 !.storage_account_id = cfg.storage_account_id,
                 !.key_vault_id = cfg.key_vault_id,
                 !.application_insights_id = cfg.application_insights_id,
                 !.public_network_access = cfg.public_network_access,
                 !.description = cfg.description,
                 !.container_registry_id = cfg.container_registry_id,
                 !.primary_user_assigned_identity = cfg.primary_user_assigned_identity]

\* The fields Update may change in place (the others force a new resource).
AifUpdatable ==
    {"application_insights_id", "container_registry_id", "public_network_access",
     "description", "primary_user_assigned_identity"}

\* metadata.ResourceData.HasChange, for every updatable field.
AifHasChange(data, cfg) == {f \in AifUpdatable : data[f] # cfg[f]}

AifAt(p, name, position) ==
    /\ resource = AIF
    /\ p \in Instances
    /\ op[p] = name
    /\ pc[p] = position

\* metadata.SetID(id).
SetID(data, id) == [data EXCEPT !.id = id]

\* metadata.MarkAsGone(id): the record is removed from the tracked state and
\* no error is returned.
MarkAsGone(data) == [err |-> "nil", d |-> [data EXCEPT !.id = EmptyString]]

(***************************************************************************)
(* AIFoundry.CustomImporter, lines 77-96.  The engine stores the ID given  *)
(* to the import in the ResourceData and then runs the importer.           *)
(***************************************************************************)
AIFoundryImport(p) ==
    /\ resource = AIF
    /\ Idle(p)
    /\ ~IsTracked(p)
    /\ \E s \in WorkspaceIDs \cup {MalformedWorkspaceID} :
         d' = [d EXCEPT ![p] = SetID(AifEmptyData, s)]
    /\ Goto(p, "import")
    /\ op' = [op EXCEPT ![p] = "Import"]
    /\ UNCHANGED <<resource, loc, log, locks, cluster, workspace, runtime>>

\* The importer as it would be without the check of lines 90-92.
AifImporterResult_NoKindCheck(resp) ==
    IF resp.status # "ok" \/ resp.Model = Nil \/ resp.Model[1].Kind = Nil
    THEN "retrieving"
    ELSE "nil"

\* Lines 85-94: the error the importer returns for a response to Get.
AifImporterResult(resp) ==
    IF resp.status # "ok" \/ resp.Model = Nil \/ resp.Model[1].Kind = Nil
    THEN "retrieving"
    ELSE IF ~EqualFold(resp.Model[1].Kind[1], "Hub")
    THEN "importing"
    ELSE "nil"

AIFoundryCustomImporter(p) ==
    /\ AifAt(p, "Import", "import")
    /\ IF ParseWorkspaceID(d[p].id).err
       THEN Return(p, "Import", "parse", AifEmptyData, AifEmptyData, log[p])
       ELSE \E resp \in WorkspaceGetResponses :
              LET err == AifImporterResult(resp)
              IN Return(p, "Import", err,
                        IF err = "nil" THEN d[p] ELSE AifEmptyData,
                        AifEmptyData, LoggedGet(p, resp))
    /\ UNCHANGED <<resource, locks, cluster, workspace, runtime>>

(***************************************************************************)
(* AIFoundry.Create, lines 235-340.                                        *)
(***************************************************************************)
\* Lines 274-330: the payload of Create.
AifCreatePayload(model) ==
    Workspace(PointerTo("Hub"),
              PointerTo(
                [WorkspaceProperties(
                     PointerTo(model.storage_account_id),
                     PointerTo(model.key_vault_id),
                     IF model.application_insights_id # EmptyString
                     THEN PointerTo(model.application_insights_id) ELSE Nil,
                     PointerTo(model.public_network_access),
                     IF model.description # ""
                     THEN PointerTo(model.description) ELSE Nil)
                   EXCEPT
                     !.ContainerRegistry =
                         IF model.container_registry_id # EmptyString
                         THEN PointerTo(model.container_registry_id) ELSE Nil,
                     !.PrimaryUserAssignedIdentity =
                         IF model.primary_user_assigned_identity # EmptyString
                         THEN PointerTo(model.primary_user_assigned_identity)
                         ELSE Nil]))

\* Lines 288-322: an optional ID that is set and does not parse.
AifOptionalIdError(model) ==
    \/ /\ model.application_insights_id # EmptyString
       /\ ParseComponentID(model.application_insights_id).err
    \/ /\ model.container_registry_id # EmptyString
       /\ ParseRegistryID(model.container_registry_id).err
    \/ /\ model.primary_user_assigned_identity # EmptyString
       /\ ParseUserAssignedIdentityID(model.primary_user_assigned_identity).err

\* Create as it would be without the check of lines 255-257.
AifCreatePrepare_NoExistsCheck(resp, model) ==
    IF resp.status = "error"
    THEN [err |-> "checking", payload |-> Nil]
    ELSE IF ParseStorageAccountID(model.storage_account_id).err
            \/ ParseKeyVaultID(model.key_vault_id).err
    THEN [err |-> "parse", payload |-> Nil]
    ELSE IF AifOptionalIdError(model)
    THEN [err |-> "parse", payload |-> Nil]
    ELSE [err |-> "nil", payload |-> PointerTo(AifCreatePayload(model))]

\* Lines 249-330: the error Create returns after Get, or the payload it sends.
AifCreatePrepare(resp, model) ==
    IF resp.status = "error"
    THEN [err |-> "checking", payload |-> Nil]
    ELSE IF resp.status # "notfound"
    THEN [err |-> "exists", payload |-> Nil]
    ELSE IF ParseStorageAccountID(model.storage_account_id).err
            \/ ParseKeyVaultID(model.key_vault_id).err
    THEN [err |-> "parse", payload |-> Nil]
    ELSE IF AifOptionalIdError(model)
    THEN [err |-> "parse", payload |-> Nil]
    ELSE [err |-> "nil", payload |-> PointerTo(AifCreatePayload(model))]

\* The step that issues Get: the handler `name` returns the error r.err, or
\* goes on to write the payload r.payload for the ID `id`.
AifAfterGet(p, name, data, id, changed, resp, r) ==
    IF r.err # "nil"
    THEN Return(p, name, r.err, data, AifEmptyData, LoggedGet(p, resp))
    ELSE /\ Goto(p, "write")
         /\ op' = [op EXCEPT ![p] = name]
         /\ d' = [d EXCEPT ![p] = data]
         /\ loc' = [loc EXCEPT ![p] = [id |-> id, payload |-> r.payload, changed |-> changed]]
         /\ log' = [log EXCEPT ![p] = LoggedGet(p, resp)]

\* Lines 242-330.
AIFoundryCreate(p) ==
    /\ resource = AIF
    /\ Idle(p)
    /\ ~IsTracked(p)
    /\ \E cfg \in AifConfigs, resp \in WorkspaceGetResponses :
         LET model == AifDecode(AifEmptyData, cfg)
         IN AifAfterGet(p, "Create", model, NewWorkspaceID(model.name), {},
                        resp, AifCreatePrepare(resp, model))
    /\ UNCHANGED <<resource, locks, cluster, workspace, runtime>>

\* client.CreateOrUpdateThenPoll(ctx, id, payload) with the payload prepared.
AifCreateOrUpdateThenPoll(p, outcome) ==
    workspace' = IF outcome = "failed" THEN workspace ELSE loc[p].payload

\* Lines 332-337.
AIFoundryCreate_CreateOrUpdateThenPoll(p) ==
    /\ AifAt(p, "Create", "write")
    /\ \E outcome \in WriteOutcomes :
         /\ AifCreateOrUpdateThenPoll(p, outcome)
         /\ IF outcome # "ok"
            THEN Return(p, "Create", "creating", d[p], AifEmptyData,
                        Logged(p, "CreateOrUpdateThenPoll", TRUE))
            ELSE Return(p, "Create", "nil", SetID(d[p], loc[p].id), AifEmptyData,
                        Logged(p, "CreateOrUpdateThenPoll", FALSE))
    /\ UNCHANGED <<resource, locks, cluster, runtime>>

(***************************************************************************)
(* AIFoundry.Read, lines 432-525: the error returned and the ResourceData  *)
(* left, given the response to Get.  Dereferencing a nil pointer (lines    *)
(* 484 and 501) aborts the handler: the result "panic".                    *)
(***************************************************************************)
\* Lines 451-522: the model fetched, encoded into the ResourceData.
AifFlatten(data, model) ==
         LET hub == [AifEmptyData EXCEPT !.id = data.id, !.name = data.id[2]]
         IN IF model = Nil \/ model[1].Properties = Nil
            THEN [err |-> "nil", d |-> hub]
            ELSE LET props == model[1].Properties[1]
                     applicationInsights == PointerFromID(props.ApplicationInsights)
                     applicationInsightsId ==
                         ParseComponentIDInsensitively(applicationInsights)
                     containerRegistry == PointerFromID(props.ContainerRegistry)
                     primaryUserAssignedIdentity ==
                         PointerFromID(props.PrimaryUserAssignedIdentity)
                 IN IF applicationInsights # EmptyString /\ applicationInsightsId.err
                    THEN [err |-> "parse", d |-> data]
                    ELSE IF containerRegistry # EmptyString
                            /\ ParseRegistryID(containerRegistry).err
                    THEN [err |-> "parse", d |-> data]
                    ELSE IF props.StorageAccount = Nil
                    THEN [err |-> "panic", d |-> data]
                    ELSE IF ParseStorageAccountID(props.StorageAccount[1]).err
                    THEN [err |-> "parse", d |-> data]
                    ELSE IF props.KeyVault # Nil /\ ParseKeyVaultID(props.KeyVault[1]).err
                    THEN [err |-> "parse", d |-> data]
                    ELSE IF props.PublicNetworkAccess = Nil
                    THEN [err |-> "panic", d |-> data]
                    ELSE IF primaryUserAssignedIdentity # EmptyString
                            /\ ParseUserAssignedIdentityID(primaryUserAssignedIdentity).err
                    THEN [err |-> "parse", d |-> data]
                    ELSE [err |-> "nil",
                          d |-> [hub EXCEPT
                                   !.application_insights_id = applicationInsightsId.id,
                                   !.container_registry_id = containerRegistry,
                                   !.primary_user_assigned_identity =
                                       primaryUserAssignedIdentity,
                                   !.storage_account_id = props.StorageAccount[1],
                                   !.key_vault_id = PointerFromID(props.KeyVault),
                                   !.public_network_access = props.PublicNetworkAccess[1],
                                   !.description = PointerFrom(props.Description)]]

\* Read as it would be if it treated every error of Get as a success
\* without a model.
AifReadResult_ErrorIgnored(data, resp) ==
    IF resp.status = "notfound"
    THEN MarkAsGone(data)
    ELSE AifFlatten(data, resp.Model)

\* Lines 443-522.
AifReadResult(data, resp) ==
    IF resp.status = "notfound"
    THEN MarkAsGone(data)
    ELSE IF resp.status = "error"
    THEN [err |-> "retrieving", d |-> data]
    ELSE AifFlatten(data, resp.Model)

AIFoundryRead(p) ==
    /\ resource = AIF
    /\ Idle(p)
    /\ IsTracked(p)
    /\ IF ParseWorkspaceID(d[p].id).err
       THEN Return(p, "Read", "parse", d[p], AifEmptyData, log[p])
       ELSE \E resp \in WorkspaceGetResponses :
              LET r == AifReadResult(d[p], resp)
              IN Return(p, "Read", r.err, r.d, AifEmptyData, LoggedGet(p, resp))
    /\ UNCHANGED <<resource, locks, cluster, workspace, runtime>>

(***************************************************************************)
(* AIFoundry.Update, lines 342-430.                                        *)
(***************************************************************************)
\* Lines 369-421: the model fetched, with the changed fields overwritten.
AifUpdatePayload(model, state, changed) ==
    [model EXCEPT !.Properties =
        PointerTo([model.Properties[1] EXCEPT
            !.ApplicationInsights =
                IF "application_insights_id" \in changed
                THEN PointerTo(state.application_insights_id) ELSE @,
            !.ContainerRegistry =
                IF "container_registry_id" \in changed
                THEN PointerTo(state.container_registry_id) ELSE @,
            !.PrimaryUserAssignedIdentity =
                IF "primary_user_assigned_identity" \in changed
                THEN PointerTo(state.primary_user_assigned_identity) ELSE @,
            !.PublicNetworkAccess =
                IF "public_network_access" \in changed
                THEN PointerTo(state.public_network_access) ELSE @,
            !.Description =
                IF "description" \in changed
                THEN PointerTo(state.description) ELSE @])]

\* Update as it would be if it skipped an ID that was removed from the
\* configuration and sent the payload without overwriting that field.
AifUpdatePrepare_EmptyIdSkipped(resp, state, changed) ==
    IF resp.status # "ok"
    THEN [err |-> "retrieving", payload |-> Nil]
    ELSE IF resp.Model = Nil
    THEN [err |-> "modelnil", payload |-> Nil]
    ELSE IF resp.Model[1].Properties = Nil
    THEN [err |-> "propsnil", payload |-> Nil]
    ELSE [err |-> "nil",
          payload |-> PointerTo(AifUpdatePayload(resp.Model[1], state,
              {f \in changed : state[f] # EmptyString}))]

\* Update as it would be if it built its payload from the configuration
\* alone, as Create does.
AifUpdatePrepare_FromConfiguration(resp, state, changed) ==
    IF resp.status # "ok"
    THEN [err |-> "retrieving", payload |-> Nil]
    ELSE IF resp.Model = Nil
    THEN [err |-> "modelnil", payload |-> Nil]
    ELSE IF resp.Model[1].Properties = Nil
    THEN [err |-> "propsnil", payload |-> Nil]
    ELSE IF AifOptionalIdError(state)
    THEN [err |-> "parse", payload |-> Nil]
    ELSE [err |-> "nil", payload |-> PointerTo(AifCreatePayload(state))]

\* Lines 358-421: the error Update returns after Get, or the payload it sends.
AifUpdatePrepare(resp, state, changed) ==
    IF resp.status # "ok"
    THEN [err |-> "retrieving", payload |-> Nil]
    ELSE IF resp.Model = Nil
    THEN [err |-> "modelnil", payload |-> Nil]
    ELSE IF resp.Model[1].Properties = Nil
    THEN [err |-> "propsnil", payload |-> Nil]
    ELSE IF "application_insights_id" \in changed
            /\ ParseComponentID(state.application_insights_id).err
    THEN [err |-> "parse", payload |-> Nil]
    ELSE IF "container_registry_id" \in changed
            /\ ParseRegistryID(state.container_registry_id).err
    THEN [err |-> "parse", payload |-> Nil]
    ELSE IF "primary_user_assigned_identity" \in changed
            /\ ParseUserAssignedIdentityID(state.primary_user_assigned_identity).err
    THEN [err |-> "parse", payload |-> Nil]
    ELSE [err |-> "nil",
          payload |-> PointerTo(AifUpdatePayload(resp.Model[1], state, changed))]

\* Lines 348-421.
AIFoundryUpdate(p) ==
    /\ resource = AIF
    /\ Idle(p)
    /\ IsTracked(p)
    /\ \E cfg \in AifConfigs :
         /\ cfg.name = d[p].name
         /\ cfg.storage_account_id = d[p].storage_account_id
         /\ cfg.key_vault_id = d[p].key_vault_id
         /\ LET state == AifDecode(d[p], cfg)
                changed == AifHasChange(d[p], cfg)
            IN IF ParseWorkspaceID(d[p].id).err
               THEN Return(p, "Update", "parse", d[p], AifEmptyData, log[p])
               ELSE \E resp \in WorkspaceGetResponses :
                      AifAfterGet(p, "Update", state, d[p].id, changed, resp,
                                  AifUpdatePrepare(resp, state, changed))
    /\ UNCHANGED <<resource, locks, cluster, workspace, runtime>>

\* Update as it would be if it repeated a write that failed.
AIFoundryUpdate_CreateOrUpdateThenPoll_Retry(p) ==
    /\ AifAt(p, "Update", "write")
    /\ \E outcome \in WriteOutcomes :
         /\ AifCreateOrUpdateThenPoll(p, outcome)
         /\ IF outcome # "ok"
            THEN /\ Goto(p, "write")
                 /\ log' = [log EXCEPT ![p] = Logged(p, "CreateOrUpdateThenPoll", TRUE)]
                 /\ UNCHANGED <<op, d, loc>>
            ELSE Return(p, "Update", "nil", d[p], AifEmptyData,
                        Logged(p, "CreateOrUpdateThenPoll", FALSE))
    /\ UNCHANGED <<resource, locks, cluster, runtime>>

\* Lines 423-427.
AIFoundryUpdate_CreateOrUpdateThenPoll(p) ==
    /\ AifAt(p, "Update", "write")
    /\ \E outcome \in WriteOutcomes :
         /\ AifCreateOrUpdateThenPoll(p, outcome)
         /\ Return(p, "Update", IF outcome # "ok" THEN "updating" ELSE "nil",
                   d[p], AifEmptyData,
                   Logged(p, "CreateOrUpdateThenPoll", outcome # "ok"))
    /\ UNCHANGED <<resource, locks, cluster, runtime>>

(***************************************************************************)
(* AIFoundry.Delete, lines 527-551; after a Delete that returns nil the    *)
(* engine drops the record.                                                *)
(***************************************************************************)
AIFoundryDelete(p) ==
    /\ resource = AIF
    /\ Idle(p)
    /\ IsTracked(p)
    /\ IF ParseWorkspaceID(d[p].id).err
       THEN /\ Return(p, "Delete", "parse", d[p], AifEmptyData, log[p])
            /\ UNCHANGED workspace
       ELSE \E outcome \in WriteOutcomes :
              /\ workspace' = IF outcome = "failed" THEN workspace ELSE Nil
              /\ IF outcome # "ok"
                 THEN Return(p, "Delete", "deleting", d[p], AifEmptyData,
                             Logged(p, "DeleteThenPoll", TRUE))
                 ELSE Return(p, "Delete", "nil", AifEmptyData, AifEmptyData,
                             Logged(p, "DeleteThenPoll", FALSE))
    /\ UNCHANGED <<resource, locks, cluster, runtime>>

AifNext ==
    \E p \in Procs :
        \/ AIFoundryImport(p)
        \/ AIFoundryCustomImporter(p)
        \/ AIFoundryCreate(p)
        \/ AIFoundryCreate_CreateOrUpdateThenPoll(p)
        \/ AIFoundryRead(p)
        \/ AIFoundryUpdate(p)
        \/ AIFoundryUpdate_CreateOrUpdateThenPoll(p)
        \/ AIFoundryDelete(p)

(***************************************************************************)
(*           azurerm_data_factory_integration_runtime_azure_ssis           *)
(*                                                                         *)
(* The ID of an integration runtime is the ID of its factory followed by   *)
(* <<"integrationruntimes", name>>.                                        *)
(***************************************************************************)
ParseFactoryID(s) == ParseResourceID("factories", s)

FactoryID == <<"factories", "df1">>

MalformedFactoryID == <<"factories">>

IntegrationRuntimeNames == {"ir1"}

NewIntegrationRuntimeID(dataFactoryId, name) ==
    dataFactoryId \o <<"integrationruntimes", name>>

ParseIntegrationRuntimeID(s) ==
    IF Len(s) = 4 /\ s[1] = "factories" /\ s[3] = "integrationruntimes"
    THEN [err |-> FALSE, id |-> s]
    ELSE [err |-> TRUE, id |-> EmptyString]

\* factories.NewFactoryID of the parts of an integration runtime ID.
NewFactoryID(id) == <<"factories", id[2]>>

IntegrationRuntimeIDs ==
    {NewIntegrationRuntimeID(FactoryID, n) : n \in IntegrationRuntimeNames}

MalformedIntegrationRuntimeID == <<"factories", "df1", "integrationruntimes">>

\* pointer.From of a pointer to an integer.
PointerFromInt(ptr) == IF ptr = Nil THEN 0 ELSE ptr[1]

\* d.GetOk: the value, and whether it differs from the zero value of its type.
GetOk(v, zero) == [v |-> v, ok |-> v # zero]

(***************************************************************************)
(* The elastic pool name and the pricing tier share the API field          *)
(* CatalogPricingTier (lines 1234-1244).                                   *)
(***************************************************************************)
ElasticPoolPrefix == "ELASTIC_POOL(name=\""

ElasticPoolSuffix == "\")"

\* fmt.Sprintf as it would be with a format that lacks the closing `")`.
formatDataFactoryIntegrationRuntimeElasticPool_Unclosed(input) ==
    <<ElasticPoolPrefix>> \o input

\* fmt.Sprintf(`ELASTIC_POOL(name="%s")`, input)
formatDataFactoryIntegrationRuntimeElasticPool(input) ==
    <<ElasticPoolPrefix>> \o input \o <<ElasticPoolSuffix>>

\* ^ELASTIC_POOL\(name="(.+)"\)$ : the dot matches every character but a
\* line break.
parseDataFactoryIntegrationRuntimeElasticPool(input) ==
    IF Len(input) >= 3 /\ input[1] = ElasticPoolPrefix
       /\ input[Len(input)] = ElasticPoolSuffix
       /\ \A i \in 2..(Len(input) - 1) : input[i] # "\n"
    THEN [name |-> SubSeq(input, 2, Len(input) - 1), matched |-> TRUE]
    ELSE [name |-> EmptyString, matched |-> FALSE]

(***************************************************************************)
(* Expanding the configuration into the API payload.                       *)
(***************************************************************************)
SecureString(value) == [Type |-> "SecureString", Value |-> value]

\* Lines 716-736: the block pipeline_external_compute_scale.
expandPipelineExternalComputeScale(pipelineExternalComputeScales) ==
    IF ~GetOk(pipelineExternalComputeScales, <<>>).ok
    THEN Nil
    ELSE LET pipelineExternalComputeScale == pipelineExternalComputeScales[1]
             e == pipelineExternalComputeScale.number_of_external_nodes
             n == pipelineExternalComputeScale.number_of_pipeline_nodes
             t == pipelineExternalComputeScale.time_to_live
         IN IF e = 0 /\ n = 0 /\ t = 0
            THEN Nil
            ELSE PointerTo([NumberOfExternalNodes |-> IF e # 0 THEN PointerTo(e) ELSE Nil,
                            NumberOfPipelineNodes |-> IF n # 0 THEN PointerTo(n) ELSE Nil,
                            TimeToLive |-> IF t # 0 THEN PointerTo(t) ELSE Nil])

\* Lines 673-739.
expandDataFactoryIntegrationRuntimeAzureSsisComputeProperties(data) ==
    PointerTo([PipelineExternalComputeScaleProperties |->
                   expandPipelineExternalComputeScale(data.pipeline_external_compute_scale)])

\* Lines 856-878: one component.
expandComponent(raw) ==
    [Type |-> "ComponentSetup",
     ComponentName |-> raw.name,
     LicenseKey |-> IF raw.license # "" THEN PointerTo(SecureString(raw.license)) ELSE Nil]

\* Lines 879-902: one command key.
expandCommandKey(raw) ==
    [Type |-> "CmdkeySetup",
     TargetName |-> PointerTo(raw.target_name),
     UserName |-> PointerTo(raw.user_name),
     Password |-> IF raw.password # "" THEN PointerTo(SecureString(raw.password)) ELSE Nil]

\* Lines 828-905.
expandDataFactoryIntegrationRuntimeAzureSsisExpressCustomSetUp(input) ==
    IF Len(input) = 0
    THEN Nil
    ELSE LET raw == input[1]
         IN PointerTo(
              (IF raw.powershell_version # ""
               THEN <<[Type |-> "AzPowerShellSetup", Version |-> raw.powershell_version]>>
               ELSE <<>>)
              \o [i \in 1..Len(raw.component) |-> expandComponent(raw.component[i])]
              \o [i \in 1..Len(raw.command_key) |-> expandCommandKey(raw.command_key[i])])

\* Lines 757-787: the block catalog_info.
expandCatalogInfo(catalogInfos) ==
    IF ~GetOk(catalogInfos, <<>>).ok
    THEN Nil
    ELSE LET catalogInfo == catalogInfos[1]
         IN PointerTo(
              [CatalogServerEndpoint |-> PointerTo(catalogInfo.server_endpoint),
               CatalogPricingTier |->
                   PointerTo(IF catalogInfo.elastic_pool_name # EmptyString
                             THEN formatDataFactoryIntegrationRuntimeElasticPool(
                                      catalogInfo.elastic_pool_name)
                             ELSE catalogInfo.pricing_tier),
               CatalogAdminUserName |->
                   IF catalogInfo.administrator_login # ""
                   THEN PointerTo(catalogInfo.administrator_login) ELSE Nil,
               CatalogAdminPassword |->
                   IF catalogInfo.administrator_password # ""
                   THEN PointerTo(SecureString(catalogInfo.administrator_password))
                   ELSE Nil])

\* Lines 789-801: the block custom_setup_script.
expandCustomSetupScript(customSetupScripts) ==
    IF ~GetOk(customSetupScripts, <<>>).ok
    THEN Nil
    ELSE LET customSetupScript == customSetupScripts[1]
         IN PointerTo([BlobContainerUri |-> PointerTo(customSetupScript.blob_container_uri),
                       SasToken |-> PointerTo(SecureString(customSetupScript.sas_token))])

\* Lines 741-804.
expandDataFactoryIntegrationRuntimeAzureSsisProperties(data) ==
    PointerTo([ExpressCustomSetupProperties |->
                   expandDataFactoryIntegrationRuntimeAzureSsisExpressCustomSetUp(
                       data.express_custom_setup),
               CatalogInfo |-> expandCatalogInfo(data.catalog_info),
               CustomSetupScriptProperties |->
                   expandCustomSetupScript(data.custom_setup_script)])

\* Lines 540-553: the payload of CreateUpdate.
SsisPayload(data, id) ==
    [Name |-> PointerTo(id[4]),
     Properties |->
        [Type |-> "Managed",
         Description |-> PointerTo(data.description),
         TypeProperties |->
            [ComputeProperties |->
                 expandDataFactoryIntegrationRuntimeAzureSsisComputeProperties(data),
             SsisProperties |->
                 expandDataFactoryIntegrationRuntimeAzureSsisProperties(data)]]]

(***************************************************************************)
(* Flattening the API response into the ResourceData.                      *)
(***************************************************************************)
\* Lines 1189-1200.
flattenDataFactoryIntegrationRuntimeAzureSsisPipelineExternalComputeScaleProperties(input) ==
    IF input = Nil
    THEN <<>>
    ELSE <<[number_of_external_nodes |-> PointerFromInt(input[1].NumberOfPipelineNodes),
            number_of_pipeline_nodes |-> PointerFromInt(input[1].NumberOfPipelineNodes),
            time_to_live |-> PointerFromInt(input[1].TimeToLive)]>>

\* readBackSensitiveValue as it would be if it took the first entry whatever
\* the filters.
readBackSensitiveValue_IgnoringFilters(input, propertyName, filters) ==
    IF Len(input) = 0 THEN "" ELSE input[1][propertyName]

\* Lines 1214-1232: the property of the first entry that matches every filter.
readBackSensitiveValue(input, propertyName, filters) ==
    LET found == {i \in 1..Len(input) :
                    \A k \in DOMAIN filters : input[i][k] = filters[k]}
    IN IF found = {}
       THEN ""
       ELSE input[CHOOSE i \in found : \A j \in found : i <= j][propertyName]

\* Lines 974-1002.
flattenDataFactoryIntegrationRuntimeAzureSsisCatalogInfo(ssisProperties, data) ==
    IF ssisProperties = Nil
    THEN <<>>
    ELSE LET catalogPricingTier == PointerFromID(ssisProperties[1].CatalogPricingTier)
             elasticPool == parseDataFactoryIntegrationRuntimeElasticPool(catalogPricingTier)
             adminPassword ==
                 GetOk(IF data.catalog_info # <<>>
                       THEN data.catalog_info[1].administrator_password ELSE "", "")
         IN <<[server_endpoint |-> PointerFrom(ssisProperties[1].CatalogServerEndpoint),
               pricing_tier |-> IF elasticPool.matched THEN EmptyString
                                ELSE catalogPricingTier,
               elastic_pool_name |-> elasticPool.name,
               administrator_login |-> PointerFrom(ssisProperties[1].CatalogAdminUserName),
               administrator_password |-> IF adminPassword.ok THEN adminPassword.v ELSE ""]>>

\* Lines 1033-1047.
flattenDataFactoryIntegrationRuntimeAzureSsisCustomSetupScript(customSetupScriptProperties, data) ==
    IF customSetupScriptProperties = Nil
    THEN <<>>
    ELSE LET sasToken ==
                 GetOk(IF data.custom_setup_script # <<>>
                       THEN data.custom_setup_script[1].sas_token ELSE "", "")
         IN <<[blob_container_uri |->
                   PointerFrom(customSetupScriptProperties[1].BlobContainerUri),
               sas_token |-> IF sasToken.ok THEN sasToken.v ELSE ""]>>

\* Lines 1064-1150.
flattenDataFactoryIntegrationRuntimeAzureSsisExpressCustomSetUp(input, data) ==
    IF input = Nil
    THEN <<>>
    ELSE LET arr == data.express_custom_setup
             oldComponents == IF Len(arr) > 0 THEN arr[1].component ELSE <<>>
             oldCmdKey == IF Len(arr) > 0 THEN arr[1].command_key ELSE <<>>
             IsAzPowerShellSetup(item) == item.Type = "AzPowerShellSetup"
             IsComponentSetup(item) == item.Type = "ComponentSetup"
             IsCmdkeySetup(item) == item.Type = "CmdkeySetup"
             versions == SelectSeq(input[1], IsAzPowerShellSetup)
             componentSetups == SelectSeq(input[1], IsComponentSetup)
             cmdkeySetups == SelectSeq(input[1], IsCmdkeySetup)
         IN <<[powershell_version |->
                   IF versions = <<>> THEN "" ELSE versions[Len(versions)].Version,
               component |->
                   [i \in 1..Len(componentSetups) |->
                       [name |-> componentSetups[i].ComponentName,
                        license |-> readBackSensitiveValue(oldComponents, "license",
                                        [name |-> componentSetups[i].ComponentName])]],
               command_key |->
                   [i \in 1..Len(cmdkeySetups) |->
                       [target_name |-> PointerFrom(cmdkeySetups[i].TargetName),
                        user_name |-> PointerFrom(cmdkeySetups[i].UserName),
                        password |-> readBackSensitiveValue(oldCmdKey, "password",
                                        [target_name |-> PointerFrom(cmdkeySetups[i].TargetName),
                                         user_name |-> PointerFrom(cmdkeySetups[i].UserName)])]]]>>

(***************************************************************************)
(* The ResourceData of an integration runtime, and the configurations.     *)
(***************************************************************************)
SsisEmptyData ==
    [id |-> EmptyString,
     name |-> "",
     data_factory_id |-> EmptyString,
     description |-> "",
     pipeline_external_compute_scale |-> <<>>,
     catalog_info |-> <<>>,
     custom_setup_script |-> <<>>,
     express_custom_setup |-> <<>>]

Component(name, license) == [name |-> name, license |-> license]

CommandKey(targetName, userName, password) ==
    [target_name |-> targetName, user_name |-> userName, password |-> password]

ExpressCustomSetup(powershellVersion, components, commandKeys) ==
    <<[powershell_version |-> powershellVersion,
       component |-> components,
       command_key |-> commandKeys]>>

CatalogInfo(pricingTier, elasticPoolName, login, password) ==
    <<[server_endpoint |-> "sql1",
       pricing_tier |-> pricingTier,
       elastic_pool_name |-> elasticPoolName,
       administrator_login |-> login,
       administrator_password |-> password]>>

\* A configuration without any optional block.
SsisBaseConfig ==
    [name |-> "ir1",
     data_factory_id |-> FactoryID,
     description |-> "",
     pipeline_external_compute_scale |-> <<>>,
     catalog_info |-> <<>>,
     custom_setup_script |-> <<>>,
     express_custom_setup |-> <<>>]

\* A configuration with every optional block.
SsisFullConfig ==
    [SsisBaseConfig EXCEPT
        !.description = "d1",
        !.pipeline_external_compute_scale =
            <<[number_of_external_nodes |-> 1, number_of_pipeline_nodes |-> 2,
               time_to_live |-> 5]>>,
        !.catalog_info = CatalogInfo(<<"Basic">>, EmptyString, "admin", "pw0"),
        !.custom_setup_script = <<[blob_container_uri |-> "blob1", sas_token |-> "sas1"]>>,
        !.express_custom_setup =
            ExpressCustomSetup("5.1",
                <<Component("c1", "lic1"), Component("c2", "lic2")>>,
                <<CommandKey("t1", "u1", "pw1"), CommandKey("t1", "u2", "pw2")>>)]

\* The configurations of the model: the optional blocks one at a time, lists
\* whose entries share their name, and a data_factory_id that does not parse.
SsisConfigs ==
    { SsisBaseConfig,
      SsisFullConfig,
      [SsisBaseConfig EXCEPT !.data_factory_id = MalformedFactoryID],
      [SsisBaseConfig EXCEPT !.catalog_info =
          CatalogInfo(EmptyString, <<"pool1">>, "", "")],
      [SsisBaseConfig EXCEPT !.express_custom_setup =
          ExpressCustomSetup("", <<Component("c1", "lic1"), Component("c1", "lic2")>>, <<>>)],
      [SsisBaseConfig EXCEPT !.express_custom_setup =
          ExpressCustomSetup("", <<>>,
              <<CommandKey("t1", "u1", "pw1"), CommandKey("t1", "u1", "pw2")>>)] }

\* d.Get after the engine has merged the configuration into the ResourceData.
SsisDecode(data, cfg) ==
    [data EXCEPT !.name = cfg.name,
                 !.data_factory_id = cfg.data_factory_id,
                 !.description = cfg.description,
                 !.pipeline_external_compute_scale = cfg.pipeline_external_compute_scale,
                 !.catalog_info = cfg.catalog_info,
                 !.custom_setup_script = cfg.custom_setup_script,
                 !.express_custom_setup = cfg.express_custom_setup]

(***************************************************************************)
(* The integration runtime as the API holds and returns it.  The API       *)
(* stores the secrets it is sent and returns them masked.                  *)
(***************************************************************************)
MaskedValue == "**********"

MaskSecret(secret) ==
    IF secret = Nil THEN Nil ELSE PointerTo(SecureString(MaskedValue))

MaskCustomSetup(item) ==
    IF item.Type = "ComponentSetup"
    THEN [item EXCEPT !.LicenseKey = MaskSecret(@)]
    ELSE IF item.Type = "CmdkeySetup"
    THEN [item EXCEPT !.Password = MaskSecret(@)]
    ELSE item

MaskSsisProperties(ssisProps) ==
    [ExpressCustomSetupProperties |->
         IF ssisProps.ExpressCustomSetupProperties = Nil
         THEN Nil
         ELSE LET items == ssisProps.ExpressCustomSetupProperties[1]
              IN PointerTo([i \in 1..Len(items) |-> MaskCustomSetup(items[i])]),
     CatalogInfo |->
         IF ssisProps.CatalogInfo = Nil
         THEN Nil
         ELSE PointerTo([ssisProps.CatalogInfo[1] EXCEPT
                             !.CatalogAdminPassword = MaskSecret(@)]),
     CustomSetupScriptProperties |->
         IF ssisProps.CustomSetupScriptProperties = Nil
         THEN Nil
         ELSE PointerTo([ssisProps.CustomSetupScriptProperties[1] EXCEPT
                             !.SasToken = MaskSecret(@)])]

\* The runtime as a Get returns it.
Masked(integrationRuntime) ==
    IF integrationRuntime.Properties.Type # "Managed"
       \/ integrationRuntime.Properties.TypeProperties.SsisProperties = Nil
    THEN integrationRuntime
    ELSE [integrationRuntime EXCEPT
             !.Properties.TypeProperties.SsisProperties =
                 PointerTo(MaskSsisProperties(@[1]))]

\* The runtimes a behaviour may start with: none; a managed runtime with
\* every optional block; a runtime that is not of the managed type.
InitialRuntimes ==
    { Nil,
      PointerTo(SsisPayload(SsisDecode(SsisEmptyData, SsisFullConfig),
                            NewIntegrationRuntimeID(FactoryID, "ir1"))),
      PointerTo([Name |-> PointerTo("ir1"), Properties |-> [Type |-> "SelfHosted"]]) }

\* client.Get: what the API may answer for the runtime.
RuntimeGetResponses ==
    IF runtime # Nil
    THEN { [status |-> "ok", Model |-> PointerTo(Masked(runtime[1]))],
           [status |-> "ok", Model |-> Nil],
           [status |-> "error", Model |-> Nil] }
    ELSE { [status |-> "notfound", Model |-> Nil],
           [status |-> "error", Model |-> Nil] }

\* client.Delete: how the API may answer.  A runtime that does not exist is
\* reported by a not-found error, or by a success without content.
RuntimeDeleteOutcomes ==
    IF runtime # Nil
    THEN {"ok", "failed", "failed-applied"}
    ELSE {"ok", "notfound", "failed"}

(***************************************************************************)
(* resourceDataFactoryIntegrationRuntimeAzureSsisRead, lines 564-651: the  *)
(* error returned and the ResourceData left, given the response to Get.    *)
(***************************************************************************)
\* Read as it would be if a runtime that is not of the managed type were
\* taken for a runtime that is gone.
SsisFlatten_NotManagedIsGone(data, model) ==
    IF model # Nil /\ model[1].Properties.Type # "Managed"
    THEN [err |-> "nil", d |-> [data EXCEPT !.id = EmptyString]]
    ELSE [err |-> "nil", d |-> data]

\* Lines 586-650: the model fetched, set into the ResourceData.
SsisFlatten(data, model) ==
         LET named == [data EXCEPT !.name = data.id[4],
                                   !.data_factory_id = NewFactoryID(data.id)]
         IN IF model = Nil
            THEN [err |-> "nil", d |-> named]
            ELSE IF model[1].Properties.Type # "Managed"
            THEN [err |-> "asserting", d |-> named]
            ELSE LET runTime == model[1].Properties
                     computeProps == runTime.TypeProperties.ComputeProperties
                     ssisProps == runTime.TypeProperties.SsisProperties
                 IN [err |-> "nil",
                     d |-> [named EXCEPT
                        !.description = PointerFrom(runTime.Description),
                        !.pipeline_external_compute_scale =
                            IF computeProps = Nil THEN @
                            ELSE flattenDataFactoryIntegrationRuntimeAzureSsisPipelineExternalComputeScaleProperties(
                                     computeProps[1].PipelineExternalComputeScaleProperties),
                        !.catalog_info =
                            IF ssisProps = Nil THEN @
                            ELSE flattenDataFactoryIntegrationRuntimeAzureSsisCatalogInfo(
                                     ssisProps[1].CatalogInfo, data),
                        !.custom_setup_script =
                            IF ssisProps = Nil THEN @
                            ELSE flattenDataFactoryIntegrationRuntimeAzureSsisCustomSetupScript(
                                     ssisProps[1].CustomSetupScriptProperties, data),
                        !.express_custom_setup =
                            IF ssisProps = Nil THEN @
                            ELSE flattenDataFactoryIntegrationRuntimeAzureSsisExpressCustomSetUp(
                                     ssisProps[1].ExpressCustomSetupProperties, data)]]

\* Lines 576-650.
SsisReadResult(data, resp) ==
    IF resp.status = "notfound"
    THEN [err |-> "nil", d |-> [data EXCEPT !.id = EmptyString]]
    ELSE IF resp.status = "error"
    THEN [err |-> "retrieving", d |-> data]
    ELSE SsisFlatten(data, resp.Model)

\* The body of Read for instance p, called as (or by) handler `name`.
SsisReadBody(p, name) ==
    /\ IF ParseIntegrationRuntimeID(d[p].id).err
       THEN Return(p, name, "parse", d[p], SsisEmptyData, log[p])
       ELSE \E resp \in RuntimeGetResponses :
              LET r == SsisReadResult(d[p], resp)
              IN Return(p, name, r.err, r.d, SsisEmptyData, LoggedGet(p, resp))
    /\ UNCHANGED <<resource, locks, cluster, workspace, runtime>>

resourceDataFactoryIntegrationRuntimeAzureSsisRead(p) ==
    /\ resource = SSIS
    /\ Idle(p)
    /\ IsTracked(p)
    /\ SsisReadBody(p, "Read")

(***************************************************************************)
(* The importer, lines 42-45: the ID given must parse.                     *)
(***************************************************************************)
resourceDataFactoryIntegrationRuntimeAzureSsisImporter(p) ==
    /\ resource = SSIS
    /\ Idle(p)
    /\ ~IsTracked(p)
    /\ \E s \in IntegrationRuntimeIDs \cup {MalformedIntegrationRuntimeID} :
         IF ParseIntegrationRuntimeID(s).err
         THEN Return(p, "Import", "parse", SsisEmptyData, SsisEmptyData, <<>>)
         ELSE Return(p, "Import", "nil", [SsisEmptyData EXCEPT !.id = s],
                     SsisEmptyData, <<>>)
    /\ UNCHANGED <<resource, locks, cluster, workspace, runtime>>

(***************************************************************************)
(* resourceDataFactoryIntegrationRuntimeAzureSsisCreateUpdate, lines       *)
(* 515-562.  The handler runs as "Create" when d.IsNewResource() and as    *)
(* "Update" otherwise.                                                     *)
(***************************************************************************)
SsisAt(p, position) ==
    /\ resource = SSIS
    /\ p \in Instances
    /\ op[p] \in {"Create", "Update"}
    /\ pc[p] = position

\* Lines 528-537: the error the existence check returns for the response.
SsisCheckExisting(existing) ==
    IF existing.status = "error"
    THEN "checking"
    ELSE IF existing.status # "notfound"
    THEN "exists"
    ELSE "nil"

\* CreateUpdate goes on to write the payload expanded from the ResourceData.
SsisGotoWrite(p, name, data, id, calls) ==
    /\ Goto(p, "write")
    /\ op' = [op EXCEPT ![p] = name]
    /\ d' = [d EXCEPT ![p] = data]
    /\ loc' = [loc EXCEPT ![p] = [NoLocals EXCEPT !.id = id,
                                                  !.payload = PointerTo(SsisPayload(data, id))]]
    /\ log' = [log EXCEPT ![p] = calls]

\* CreateUpdate as it would be if it checked for an existing runtime on an
\* update as well.
resourceDataFactoryIntegrationRuntimeAzureSsisCreateUpdate_AlwaysChecks(p) ==
    /\ resource = SSIS
    /\ Idle(p)
    /\ \E cfg \in SsisConfigs :
         /\ IsTracked(p) => /\ cfg.name = d[p].name
                            /\ cfg.data_factory_id = d[p].data_factory_id
         /\ LET name == IF ~IsTracked(p) THEN "Create" ELSE "Update"
                data == SsisDecode(d[p], cfg)
                dataFactoryId == ParseFactoryID(data.data_factory_id)
                id == NewIntegrationRuntimeID(dataFactoryId.id, data.name)
            IN IF dataFactoryId.err
               THEN Return(p, name, "parse", data, SsisEmptyData, log[p])
               ELSE \E existing \in RuntimeGetResponses :
                      IF SsisCheckExisting(existing) # "nil"
                      THEN Return(p, name, SsisCheckExisting(existing), data,
                                  SsisEmptyData, LoggedGet(p, existing))
                      ELSE SsisGotoWrite(p, name, data, id, LoggedGet(p, existing))
    /\ UNCHANGED <<resource, locks, cluster, workspace, runtime>>

\* Lines 520-553.
resourceDataFactoryIntegrationRuntimeAzureSsisCreateUpdate(p) ==
    /\ resource = SSIS
    /\ Idle(p)
    /\ \E cfg \in SsisConfigs :
         /\ IsTracked(p) => /\ cfg.name = d[p].name
                            /\ cfg.data_factory_id = d[p].data_factory_id
         /\ LET IsNewResource == ~IsTracked(p)
                name == IF IsNewResource THEN "Create" ELSE "Update"
                data == SsisDecode(d[p], cfg)
                dataFactoryId == ParseFactoryID(data.data_factory_id)
                id == NewIntegrationRuntimeID(dataFactoryId.id, data.name)
            IN IF dataFactoryId.err
               THEN Return(p, name, "parse", data, SsisEmptyData, log[p])
               ELSE IF IsNewResource
               THEN \E existing \in RuntimeGetResponses :
                      IF SsisCheckExisting(existing) # "nil"
                      THEN Return(p, name, SsisCheckExisting(existing), data,
                                  SsisEmptyData, LoggedGet(p, existing))
                      ELSE SsisGotoWrite(p, name, data, id, LoggedGet(p, existing))
               ELSE SsisGotoWrite(p, name, data, id, log[p])
    /\ UNCHANGED <<resource, locks, cluster, workspace, runtime>>

\* CreateUpdate as it would be if it set the ID before the write.
resourceDataFactoryIntegrationRuntimeAzureSsisCreateUpdate_SetIdFirst(p) ==
    /\ SsisAt(p, "write")
    /\ \E outcome \in WriteOutcomes :
         /\ runtime' = IF outcome = "failed" THEN runtime ELSE loc[p].payload
         /\ IF outcome # "ok"
            THEN Return(p, op[p], "creating/updating",
                        [d[p] EXCEPT !.id = loc[p].id], SsisEmptyData,
                        Logged(p, "CreateOrUpdate", TRUE))
            ELSE /\ Goto(p, "read")
                 /\ d' = [d EXCEPT ![p].id = loc[p].id]
                 /\ log' = [log EXCEPT ![p] = Logged(p, "CreateOrUpdate", FALSE)]
                 /\ UNCHANGED <<op, loc>>
    /\ UNCHANGED <<resource, locks, cluster, workspace>>

\* Lines 555-559: the write, then d.SetId(id.ID()).
resourceDataFactoryIntegrationRuntimeAzureSsisCreateUpdate_CreateOrUpdate(p) ==
    /\ SsisAt(p, "write")
    /\ \E outcome \in WriteOutcomes :
         /\ runtime' = IF outcome = "failed" THEN runtime ELSE loc[p].payload
         /\ IF outcome # "ok"
            THEN Return(p, op[p], "creating/updating", d[p], SsisEmptyData,
                        Logged(p, "CreateOrUpdate", TRUE))
            ELSE /\ Goto(p, "read")
                 /\ d' = [d EXCEPT ![p].id = loc[p].id]
                 /\ log' = [log EXCEPT ![p] = Logged(p, "CreateOrUpdate", FALSE)]
                 /\ UNCHANGED <<op, loc>>
    /\ UNCHANGED <<resource, locks, cluster, workspace>>

\* Line 561: return Read(d, meta).
resourceDataFactoryIntegrationRuntimeAzureSsisCreateUpdate_Read(p) ==
    /\ SsisAt(p, "read")
    /\ SsisReadBody(p, op[p])

(***************************************************************************)
(* resourceDataFactoryIntegrationRuntimeAzureSsisDelete, lines 653-671.    *)
(***************************************************************************)
\* Delete as it would be if a not-found answer to the Delete call were an
\* error like any other.
SsisDeleteResult_NotFoundIsError(status) ==
    IF status # "ok" THEN "deleting" ELSE "nil"

\* Lines 663-670: the error Delete returns for the answer to the Delete call.
SsisDeleteResult(status) ==
    IF status \notin {"ok", "notfound"} THEN "deleting" ELSE "nil"

resourceDataFactoryIntegrationRuntimeAzureSsisDelete(p) ==
    /\ resource = SSIS
    /\ Idle(p)
    /\ IsTracked(p)
    /\ IF ParseIntegrationRuntimeID(d[p].id).err
       THEN /\ Return(p, "Delete", "parse", d[p], SsisEmptyData, log[p])
            /\ UNCHANGED runtime
       ELSE \E outcome \in RuntimeDeleteOutcomes :
              LET status == IF outcome = "failed-applied" THEN "failed" ELSE outcome
                  err == SsisDeleteResult(status)
              IN /\ runtime' = IF outcome \in {"ok", "failed-applied"} THEN Nil ELSE runtime
                 /\ Return(p, "Delete", err,
                           IF err = "nil" THEN SsisEmptyData ELSE d[p], SsisEmptyData,
                           Append(log[p], StatusEvent("Delete", status)))
    /\ UNCHANGED <<resource, locks, cluster, workspace>>

SsisNext ==
    \E p \in Procs :
        \/ resourceDataFactoryIntegrationRuntimeAzureSsisImporter(p)
        \/ resourceDataFactoryIntegrationRuntimeAzureSsisRead(p)
        \/ resourceDataFactoryIntegrationRuntimeAzureSsisCreateUpdate(p)
        \/ resourceDataFactoryIntegrationRuntimeAzureSsisCreateUpdate_CreateOrUpdate(p)
        \/ resourceDataFactoryIntegrationRuntimeAzureSsisCreateUpdate_Read(p)
        \/ resourceDataFactoryIntegrationRuntimeAzureSsisDelete(p)

\* The ResourceData of an instance that is not tracked.
EmptyData ==
    CASE resource = CMK -> CmkEmptyData
      [] resource = AIF -> AifEmptyData
      [] resource = SSIS -> SsisEmptyData

(***************************************************************************)
(* The initial state: no handler runs, nothing is tracked, no lock is held. *)
(***************************************************************************)
Init ==
    /\ resource \in ResourceTypes
    /\ pc = [p \in Procs |-> "idle"]
    /\ op = [p \in Procs |-> "none"]
    /\ d = [p \in Procs |-> EmptyData]
    /\ loc = [p \in Procs |-> NoLocals]
    /\ log = [p \in Procs |-> <<>>]
    /\ returned = NoReturn
    /\ locks = [id \in ClusterIDs |-> FALSE]
    /\ cluster \in [ClusterIDs -> IF resource = CMK THEN InitialClusters ELSE {NoCluster}]
    /\ workspace \in (IF resource = AIF THEN InitialWorkspaces ELSE {Nil})
    /\ runtime \in (IF resource = SSIS THEN InitialRuntimes ELSE {Nil})

Next == CmkNext \/ AifNext \/ SsisNext

Spec == Init /\ [][Next]_vars

(***************************************************************************)
(* The block pipeline_external_compute_scale on its own: every value the   *)
(* schema admits (lines 467, 473 and 479) is expanded into the API         *)
(* properties (lines 716-736), which are flattened back (lines 1189-1200). *)
(***************************************************************************)
MinNodes == 1

MaxNodes == 10

MinTimeToLive == 5

MaxTimeToLive == 7

PipelineExternalComputeScales ==
    { <<[number_of_external_nodes |-> e,
         number_of_pipeline_nodes |-> n,
         time_to_live |-> t]>> :
        e \in MinNodes..MaxNodes, n \in MinNodes..MaxNodes,
        t \in MinTimeToLive..MaxTimeToLive }

InitPipelineExternalComputeScale ==
    /\ resource = SSIS
    /\ pc = [p \in Procs |-> IF p = 1 THEN "expand" ELSE "idle"]
    /\ op = [p \in Procs |-> "none"]
    /\ \E b \in PipelineExternalComputeScales :
         d = [p \in Procs |->
                IF p = 1
                THEN [SsisEmptyData EXCEPT !.pipeline_external_compute_scale = b]
                ELSE SsisEmptyData]
    /\ loc = [p \in Procs |-> NoLocals]
    /\ log = [p \in Procs |-> <<>>]
    /\ returned = NoReturn
    /\ locks = [id \in ClusterIDs |-> FALSE]
    /\ cluster = [id \in ClusterIDs |-> NoCluster]
    /\ workspace = Nil
    /\ runtime = Nil

ExpandPipelineExternalComputeScale ==
    /\ pc[1] = "expand"
    /\ pc' = [pc EXCEPT ![1] = "flatten"]
    /\ loc' = [loc EXCEPT ![1].payload =
                  expandDataFactoryIntegrationRuntimeAzureSsisComputeProperties(d[1])]
    /\ UNCHANGED <<resource, op, d, log, returned, locks, cluster, workspace, runtime>>

FlattenPipelineExternalComputeScale ==
    /\ pc[1] = "flatten"
    /\ pc' = [pc EXCEPT ![1] = "flattened"]
    /\ d' = [d EXCEPT ![1].pipeline_external_compute_scale =
                flattenDataFactoryIntegrationRuntimeAzureSsisPipelineExternalComputeScaleProperties(
                    loc[1].payload[1].PipelineExternalComputeScaleProperties)]
    /\ UNCHANGED <<resource, op, loc, log, returned, locks, cluster, workspace, runtime>>

NextPipelineExternalComputeScale ==
    \/ ExpandPipelineExternalComputeScale
    \/ FlattenPipelineExternalComputeScale

SpecPipelineExternalComputeScale ==
    InitPipelineExternalComputeScale /\ [][NextPipelineExternalComputeScale]_vars

(***************************************************************************)
(* The validation of the integration runtime's name on its own (lines      *)
(* 58-61): validation.StringMatch reports an error unless the regular      *)
(* expression ^([a-zA-Z0-9](-|-?[a-zA-Z0-9]+)+[a-zA-Z0-9])$ matches.  A     *)
(* name is a sequence of characters; the alphabet holds a letter, a digit, *)
(* the dash and a character outside the classes of the expression.         *)
(***************************************************************************)
MaxNameLen == 5

NameAlphabet == {"a", "0", "-", "_"}

NamesOfLen(n) == [1..n -> NameAlphabet]

Names == UNION {NamesOfLen(n) : n \in 0..MaxNameLen}

\* [a-zA-Z0-9]
IsAlnum(c) == c \in {"a", "0"}

\* [a-zA-Z0-9]+
MatchesAlnums(s) == s # <<>> /\ \A i \in 1..Len(s) : IsAlnum(s[i])

\* (-|-?[a-zA-Z0-9]+): one pass through the group.
MatchesGroup(s) ==
    \/ s = <<"-">>
    \/ /\ s # <<>>
       /\ MatchesAlnums(IF s[1] = "-" THEN Tail(s) ELSE s)

\* (-|-?[a-zA-Z0-9]+)+: the group, one or more times.
RECURSIVE MatchesGroups(_)
MatchesGroups(s) ==
    /\ s # <<>>
    /\ \E k \in 1..Len(s) :
         /\ MatchesGroup(SubSeq(s, 1, k))
         /\ k = Len(s) \/ MatchesGroups(SubSeq(s, k + 1, Len(s)))

\* regexp.MatchString of the anchored expression of line 59.
NameRegexpMatchString(s) ==
    /\ Len(s) >= 2
    /\ IsAlnum(s[1])
    /\ MatchesGroups(SubSeq(s, 2, Len(s) - 1))
    /\ IsAlnum(s[Len(s)])

\* validation.StringMatch: the error reported for the value.
ValidateName(s) == IF NameRegexpMatchString(s) THEN "nil" ELSE "invalid"

InitNameValidation ==
    /\ resource = SSIS
    /\ pc = [p \in Procs |-> IF p = 1 THEN "validate" ELSE "idle"]
    /\ op = [p \in Procs |-> "none"]
    /\ \E s \in Names :
         d = [p \in Procs |->
                IF p = 1 THEN [SsisEmptyData EXCEPT !.name = s] ELSE SsisEmptyData]
    /\ loc = [p \in Procs |-> NoLocals]
    /\ log = [p \in Procs |-> <<>>]
    /\ returned = NoReturn
    /\ locks = [id \in ClusterIDs |-> FALSE]
    /\ cluster = [id \in ClusterIDs |-> NoCluster]
    /\ workspace = Nil
    /\ runtime = Nil

\* The engine validates the configured name.
ValidateNameStep ==
    /\ pc[1] = "validate"
    /\ pc' = [pc EXCEPT ![1] = "validated"]
    /\ returned' = [p |-> 1, op |-> "Validate", err |-> ValidateName(d[1].name),
                    log |-> <<>>]
    /\ UNCHANGED <<resource, op, d, loc, log, locks, cluster, workspace, runtime>>

NextNameValidation == ValidateNameStep

SpecNameValidation == InitNameValidation /\ [][NextNameValidation]_vars

(***************************************************************************)
(* The validation of a managed instance start/stop schedule ID.  The       *)
(* validator and the parser it calls are not part of the files at hand;    *)
(* they are modelled as a walk over the segments of the ID that expects    *)
(* each fixed segment as written and a non-empty value after it.  The      *)
(* table of inputs and expected outcomes is that of                        *)
(* TestManagedInstanceStartStopScheduleID (lines 11-80).  An input is the  *)
(* sequence strings.Split(input, "/") yields: "" is <<"">>, "/" is         *)
(* <<"", "">>.                                                             *)
(***************************************************************************)
SubscriptionId == "12345678-1234-9876-4563-123456789012"

\* The segments of an ID after its leading slash: fixed ones and values.
Fixed(name) == [fixed |-> TRUE, name |-> name]

UserSpecified == [fixed |-> FALSE, name |-> ""]

ManagedInstanceStartStopScheduleSegments ==
    <<Fixed("subscriptions"), UserSpecified,
      Fixed("resourceGroups"), UserSpecified,
      Fixed("providers"), Fixed("Microsoft.Sql"),
      Fixed("managedInstances"), UserSpecified,
      Fixed("startStopSchedules"), UserSpecified>>

\* strings.ToUpper, on the segments of the table.
ToUpper(str) ==
    CASE str = "subscriptions" -> "SUBSCRIPTIONS"
      [] str = "resourceGroups" -> "RESOURCEGROUPS"
      [] str = "resGroup1" -> "RESGROUP1"
      [] str = "providers" -> "PROVIDERS"
      [] str = "Microsoft.Sql" -> "MICROSOFT.SQL"
      [] str = "managedInstances" -> "MANAGEDINSTANCES"
      [] str = "instance1" -> "INSTANCE1"
      [] str = "startStopSchedules" -> "STARTSTOPSCHEDULES"
      [] str = "default" -> "DEFAULT"
      [] OTHER -> str

\* A parser that compared the fixed segments without regard to case.
SegmentMatches_IgnoringCase(segment, str) ==
    IF segment.fixed THEN ToUpper(str) = ToUpper(segment.name) ELSE str # ""

\* One segment of the input against the segment the ID has at that place.
SegmentMatches(segment, str) ==
    IF segment.fixed THEN str = segment.name ELSE str # ""

\* The walk over the input: every segment matches, none is missing or left.
RECURSIVE SegmentsMatch(_, _)
SegmentsMatch(segments, input) ==
    IF segments = <<>> \/ input = <<>>
    THEN segments = <<>> /\ input = <<>>
    ELSE /\ SegmentMatches(Head(segments), Head(input))
         /\ SegmentsMatch(Tail(segments), Tail(input))

\* parse.ManagedInstanceStartStopScheduleID: whether it returns an error.
ParseManagedInstanceStartStopScheduleID(input) ==
    [err |-> ~(/\ Len(input) >= 1
               /\ Head(input) = ""
               /\ SegmentsMatch(ManagedInstanceStartStopScheduleSegments, Tail(input)))]

\* validate.ManagedInstanceStartStopScheduleID: the errors it reports.
ManagedInstanceStartStopScheduleID(input) ==
    IF ParseManagedInstanceStartStopScheduleID(input).err THEN <<"error">> ELSE <<>>

\* The valid ID of the table (lines 69-73) and its upper-cased form (75-79).
ValidInput ==
    <<"", "subscriptions", SubscriptionId, "resourceGroups", "resGroup1",
      "providers", "Microsoft.Sql", "managedInstances", "instance1",
      "startStopSchedules", "default">>

UpperCasedInput == [i \in 1..Len(ValidInput) |-> ToUpper(ValidInput[i])]

\* The table of the test: each input and whether it is expected to be valid.
TestCases ==
    {[Input |-> <<"">>, Valid |-> FALSE],
     [Input |-> <<"", "">>, Valid |-> FALSE],
     [Input |-> Append(SubSeq(ValidInput, 1, 2), ""), Valid |-> FALSE],
     [Input |-> Append(SubSeq(ValidInput, 1, 3), ""), Valid |-> FALSE],
     [Input |-> Append(SubSeq(ValidInput, 1, 4), ""), Valid |-> FALSE],
     [Input |-> Append(SubSeq(ValidInput, 1, 7), ""), Valid |-> FALSE],
     [Input |-> Append(SubSeq(ValidInput, 1, 8), ""), Valid |-> FALSE],
     [Input |-> Append(SubSeq(ValidInput, 1, 9), ""), Valid |-> FALSE],
     [Input |-> Append(SubSeq(ValidInput, 1, 10), ""), Valid |-> FALSE],
     [Input |-> ValidInput, Valid |-> TRUE],
     [Input |-> UpperCasedInput, Valid |-> FALSE]}

\* The strings an input may have at place i: the one of the valid ID, its
\* upper-cased form, or nothing.
SegmentChoices(i) == {ValidInput[i], UpperCasedInput[i], ""}

\* How many segments of the valid ID an input may differ in.
MaxChanges == 2

RECURSIVE Changed(_)
Changed(n) ==
    IF n = 0 THEN {ValidInput}
    ELSE UNION {{[input EXCEPT ![i] = str] :
                    input \in Changed(n - 1), str \in SegmentChoices(i)} :
                  i \in 2..Len(ValidInput)}

\* The inputs: the valid ID with some segments changed and its upper-cased
\* form, each cut after any segment or with one segment more.
ScheduleIdInputs ==
    LET full == Changed(MaxChanges) \cup {UpperCasedInput}
    IN {SubSeq(input, 1, n) : input \in full, n \in 1..Len(ValidInput)}
         \cup {Append(input, str) : input \in full, str \in {"", "default"}}

InitScheduleIdValidation ==
    /\ resource = SSIS
    /\ pc = [p \in Procs |-> IF p = 1 THEN "validate" ELSE "idle"]
    /\ op = [p \in Procs |-> "none"]
    /\ d = [p \in Procs |-> SsisEmptyData]
    /\ \E input \in ScheduleIdInputs :
         loc = [p \in Procs |-> IF p = 1 THEN [NoLocals EXCEPT !.id = input] ELSE NoLocals]
    /\ log = [p \in Procs |-> <<>>]
    /\ returned = NoReturn
    /\ locks = [id \in ClusterIDs |-> FALSE]
    /\ cluster = [id \in ClusterIDs |-> NoCluster]
    /\ workspace = Nil
    /\ runtime = Nil

\* The body of the loop of the test (lines 81-89): the validator runs on the
\* input and the errors it reports are kept.
ValidateScheduleIdStep ==
    /\ pc[1] = "validate"
    /\ pc' = [pc EXCEPT ![1] = "validated"]
    /\ loc' = [loc EXCEPT ![1].payload = ManagedInstanceStartStopScheduleID(loc[1].id)]
    /\ UNCHANGED <<resource, op, d, log, returned, locks, cluster, workspace, runtime>>

NextScheduleIdValidation == ValidateScheduleIdStep

SpecScheduleIdValidation ==
    InitScheduleIdValidation /\ [][NextScheduleIdValidation]_vars

(***************************************************************************)
(* The customer managed key handlers under fair scheduling: a handler that *)
(* has been entered keeps running.  A call that is issued returns (weak    *)
(* fairness of the steps that issue Get, CreateOrUpdateThenPoll and the    *)
(* wait), and a handler that waits for a lock that is released again and   *)
(* again gets it in the end (strong fairness of the lock step).  The       *)
(* engine is not obliged to call any handler.                              *)
(***************************************************************************)
InitCmk ==
    /\ Init
    /\ resource = CMK

\* locks.ByID of a handler that instance p runs.
CmkLockStep(p) ==
    \/ resourceLogAnalyticsClusterCustomerManagedKeyCreate_ByID(p)
    \/ resourceLogAnalyticsClusterCustomerManagedKeyUpdate_ByID(p)
    \/ resourceLogAnalyticsClusterCustomerManagedKeyDelete_ByID(p)

\* Every other step of a handler that instance p runs, up to its return.
CmkCallStep(p) ==
    \/ resourceLogAnalyticsClusterCustomerManagedKeyCreate_Get(p)
    \/ resourceLogAnalyticsClusterCustomerManagedKeyCreate_CreateOrUpdateThenPoll(p)
    \/ resourceLogAnalyticsClusterCustomerManagedKeyCreate_WaitForState(p)
    \/ resourceLogAnalyticsClusterCustomerManagedKeyCreate_Read(p)
    \/ resourceLogAnalyticsClusterCustomerManagedKeyUpdate_Get(p)
    \/ resourceLogAnalyticsClusterCustomerManagedKeyUpdate_CreateOrUpdateThenPoll(p)
    \/ resourceLogAnalyticsClusterCustomerManagedKeyUpdate_Read(p)
    \/ resourceLogAnalyticsClusterCustomerManagedKeyDelete_Get(p)
    \/ resourceLogAnalyticsClusterCustomerManagedKeyDelete_CreateOrUpdateThenPoll(p)

CmkFairness ==
    \A p \in Procs :
        /\ WF_vars(CmkCallStep(p))
        /\ SF_vars(CmkLockStep(p))

SpecCmkFair == InitCmk /\ [][CmkNext]_vars /\ CmkFairness

(***************************************************************************)
(* The API field CatalogPricingTier on its own: a block catalog_info with  *)
(* a pricing tier, an elastic pool name or neither is expanded (lines      *)
(* 757-771) and the result flattened (lines 974-1002), or a value of the   *)
(* API is flattened.  The block is kept in d[1].catalog_info, the API      *)
(* value in runtime, and the flattened block in loc[1].payload.            *)
(***************************************************************************)
\* The values of pricing_tier the schema admits, lines 267-275.
PricingTiers ==
    { "Basic", "S0", "S1", "S2", "S3", "S4", "S6", "S7", "S9", "S12", "P1",
      "P2", "P4", "P6", "P11", "P15", "GP_S_Gen5_1", "GP_S_Gen5_2",
      "GP_S_Gen5_4", "GP_S_Gen5_6", "GP_S_Gen5_8", "GP_S_Gen5_10",
      "GP_S_Gen5_12", "GP_S_Gen5_14", "GP_S_Gen5_16", "GP_S_Gen5_18",
      "GP_S_Gen5_20", "GP_S_Gen5_24", "GP_S_Gen5_32", "GP_S_Gen5_40",
      "GP_Gen5_2", "GP_Gen5_4", "GP_Gen5_6", "GP_Gen5_8", "GP_Gen5_10",
      "GP_Gen5_12", "GP_Gen5_14", "GP_Gen5_16", "GP_Gen5_18", "GP_Gen5_20",
      "GP_Gen5_24", "GP_Gen5_32", "GP_Gen5_40", "GP_Gen5_80", "BC_Gen5_2",
      "BC_Gen5_4", "BC_Gen5_6", "BC_Gen5_8", "BC_Gen5_10", "BC_Gen5_12",
      "BC_Gen5_14", "BC_Gen5_16", "BC_Gen5_18", "BC_Gen5_20", "BC_Gen5_24",
      "BC_Gen5_32", "BC_Gen5_40", "BC_Gen5_80", "HS_Gen5_2", "HS_Gen5_4",
      "HS_Gen5_6", "HS_Gen5_8", "HS_Gen5_10", "HS_Gen5_12", "HS_Gen5_14",
      "HS_Gen5_16", "HS_Gen5_18", "HS_Gen5_20", "HS_Gen5_24", "HS_Gen5_32",
      "HS_Gen5_40", "HS_Gen5_80" }

\* Elastic pool names: the non-empty strings of up to MaxPoolNameLen pieces,
\* a piece being a letter or one of the pieces of the ELASTIC_POOL form.
MaxPoolNameLen == 2

PoolNamePieces == {"p", "\"", ElasticPoolPrefix, ElasticPoolSuffix}

PoolNames == UNION {[1..n -> PoolNamePieces] : n \in 1..MaxPoolNameLen}

\* The strings the API may hold in CatalogPricingTier: a tier, the form of
\* an elastic pool, and strings close to that form.
CatalogPricingTiers ==
    {<<t>> : t \in {"Basic", "S0"}}
        \cup {formatDataFactoryIntegrationRuntimeElasticPool(n) : n \in PoolNames}
        \cup { <<ElasticPoolPrefix, ElasticPoolSuffix>>,
               <<ElasticPoolPrefix, "p">>,
               <<"p", ElasticPoolSuffix>>,
               <<ElasticPoolPrefix, "p", "\n", ElasticPoolSuffix>>,
               <<ElasticPoolPrefix, "p", ElasticPoolSuffix, "p">> }

InitCatalogPricingTier ==
    /\ resource = SSIS
    /\ op = [p \in Procs |-> "none"]
    /\ loc = [p \in Procs |-> NoLocals]
    /\ log = [p \in Procs |-> <<>>]
    /\ returned = NoReturn
    /\ locks = [id \in ClusterIDs |-> FALSE]
    /\ cluster = [id \in ClusterIDs |-> NoCluster]
    /\ workspace = Nil
    /\ \/ /\ pc = [p \in Procs |-> IF p = 1 THEN "expand" ELSE "idle"]
          /\ \E catalogInfo \in
                 {CatalogInfo(<<t>>, EmptyString, "admin", "pw0") : t \in PricingTiers}
                   \cup {CatalogInfo(EmptyString, n, "admin", "pw0") : n \in PoolNames}
                   \cup {CatalogInfo(EmptyString, EmptyString, "admin", "pw0")} :
               d = [p \in Procs |->
                      IF p = 1 THEN [SsisEmptyData EXCEPT !.catalog_info = catalogInfo]
                      ELSE SsisEmptyData]
          /\ runtime = Nil
       \/ /\ pc = [p \in Procs |-> IF p = 1 THEN "flatten" ELSE "idle"]
          /\ d = [p \in Procs |-> SsisEmptyData]
          /\ \E tier \in CatalogPricingTiers :
               runtime = PointerTo([CatalogServerEndpoint |-> PointerTo("sql1"),
                                    CatalogPricingTier |-> PointerTo(tier),
                                    CatalogAdminUserName |-> Nil,
                                    CatalogAdminPassword |-> Nil])

\* Lines 757-787.
ExpandCatalogInfoStep ==
    /\ pc[1] = "expand"
    /\ runtime' = expandCatalogInfo(d[1].catalog_info)
    /\ pc' = [pc EXCEPT ![1] = "flatten"]
    /\ UNCHANGED <<resource, op, d, loc, log, returned, locks, cluster, workspace>>

\* Lines 974-1002.
FlattenCatalogInfoStep ==
    /\ pc[1] = "flatten"
    /\ loc' = [loc EXCEPT ![1].payload =
                 flattenDataFactoryIntegrationRuntimeAzureSsisCatalogInfo(runtime, d[1])]
    /\ pc' = [pc EXCEPT ![1] = "flattened"]
    /\ UNCHANGED <<resource, op, d, log, returned, locks, cluster, workspace, runtime>>

NextCatalogPricingTier == ExpandCatalogInfoStep \/ FlattenCatalogInfoStep

SpecCatalogPricingTier == InitCatalogPricingTier /\ [][NextCatalogPricingTier]_vars

(***************************************************************************)
(* The block encryption of the AI Foundry hub on its own: a block of the   *)
(* configuration is expanded (lines 553-569) and the result flattened      *)
(* (lines 571-603), or a value of the API is flattened.  The block is kept *)
(* in d[1].encryption, the API value in workspace, and what                *)
(* flattenEncryption returns in loc[1].payload.                            *)
(***************************************************************************)
\* keyvaultParse.ParseNestedItemID followed by ID(): the ID needs a version;
\* a vault URL that names the default port comes back without it.
ParseNestedItemID(s) ==
    IF Len(s) = 4 /\ s[2] \in NestedItemTypes /\ s[1] \in VaultUrls
    THEN [err |-> FALSE, ID |-> s]
    ELSE IF Len(s) = 4 /\ s[2] \in NestedItemTypes /\ s[1] = "https://vault1:443"
    THEN [err |-> FALSE, ID |-> <<"https://vault1", s[2], s[3], s[4]>>]
    ELSE [err |-> TRUE, ID |-> EmptyString]

\* commonids.ParseUserAssignedIdentityIDInsensitively followed by ID().
ParseUserAssignedIdentityIDInsensitively(s) ==
    IF Len(s) = 2 /\ EqualFold(s[1], "userAssignedIdentities")
    THEN [err |-> FALSE, id |-> <<"userAssignedIdentities", s[2]>>]
    ELSE [err |-> TRUE, id |-> EmptyString]

\* The struct Encryption, lines 59-63.
Encryption(identityClientID, keyVaultID, keyID) ==
    [user_assigned_identity_id |-> identityClientID,
     key_vault_id |-> keyVaultID,
     key_id |-> keyID]

\* expandEncryption as it would be if it left the identity out.
expandEncryption_IdentityDropped(input) ==
    LET encryption == input[1]
    IN PointerTo([Identity |-> PointerTo([UserAssignedIdentity |-> Nil]),
                  KeyVaultProperties |->
                      [KeyVaultArmId |-> encryption.key_vault_id,
                       KeyIdentifier |-> encryption.key_id],
                  Status |-> "Enabled"])

\* Lines 553-569.
expandEncryption(input) ==
    LET encryption == input[1]
    IN PointerTo([Identity |->
                      PointerTo([UserAssignedIdentity |->
                          IF encryption.user_assigned_identity_id # EmptyString
                          THEN PointerTo(encryption.user_assigned_identity_id)
                          ELSE Nil]),
                  KeyVaultProperties |->
                      [KeyVaultArmId |-> encryption.key_vault_id,
                       KeyIdentifier |-> encryption.key_id],
                  Status |-> "Enabled"])

\* Lines 571-603: the list returned and whether an error is returned with
\* it (the list is then nil).
flattenEncryption(input) ==
    IF input = Nil \/ input[1].Status # "Enabled"
    THEN [out |-> <<>>, err |-> FALSE]
    ELSE LET armId == input[1].KeyVaultProperties.KeyVaultArmId
             keyVaultId == ParseKeyVaultID(armId)
             identifier == input[1].KeyVaultProperties.KeyIdentifier
             keyId == ParseNestedItemID(identifier)
             hasIdentity == /\ input[1].Identity # Nil
                            /\ input[1].Identity[1].UserAssignedIdentity # Nil
             userAssignedId ==
                 ParseUserAssignedIdentityIDInsensitively(
                     input[1].Identity[1].UserAssignedIdentity[1])
         IN IF armId # EmptyString /\ keyVaultId.err
            THEN [out |-> <<>>, err |-> TRUE]
            ELSE IF identifier # EmptyString /\ keyId.err
            THEN [out |-> <<>>, err |-> TRUE]
            ELSE IF hasIdentity /\ userAssignedId.err
            THEN [out |-> <<>>, err |-> TRUE]
            ELSE [out |-> <<Encryption(
                              IF hasIdentity THEN userAssignedId.id ELSE EmptyString,
                              IF armId # EmptyString THEN keyVaultId.id ELSE EmptyString,
                              IF identifier # EmptyString THEN keyId.ID ELSE EmptyString)>>,
                  err |-> FALSE]

\* The values of the three arguments of the block: in canonical form, in a
\* form the parsers rewrite or reject, and (for the optional one) absent.
EncryptionKeyVaultIds == {KeyVaultID, <<"Vaults", "kv1">>, <<"vaults">>}

EncryptionKeyIds ==
    { <<"https://vault1", "keys", "key1", "v1">>,
      <<"https://vault1:443", "keys", "key1", "v1">>,
      <<"https://vault1", "keys", "key1">> }

EncryptionIdentityIds ==
    { EmptyString,
      UserAssignedIdentityID,
      <<"UserAssignedIdentities", "id1">>,
      <<"userAssignedIdentities">> }

EncryptionBlocks ==
    { Encryption(i, v, k) :
        i \in EncryptionIdentityIds, v \in EncryptionKeyVaultIds, k \in EncryptionKeyIds }

\* The values of *workspaces.EncryptionProperty the API may return.
EncryptionProperties ==
    {Nil} \cup
    { PointerTo([Identity |-> identity,
                 KeyVaultProperties |-> [KeyVaultArmId |-> v, KeyIdentifier |-> k],
                 Status |-> status]) :
        identity \in {Nil} \cup {PointerTo([UserAssignedIdentity |-> u]) :
                        u \in {Nil} \cup {PointerTo(i) : i \in EncryptionIdentityIds \ {EmptyString}}},
        v \in EncryptionKeyVaultIds \cup {EmptyString},
        k \in EncryptionKeyIds \cup {EmptyString},
        status \in {"Enabled", "Disabled"} }

InitEncryption ==
    /\ resource = AIF
    /\ op = [p \in Procs |-> "none"]
    /\ loc = [p \in Procs |-> NoLocals]
    /\ log = [p \in Procs |-> <<>>]
    /\ returned = NoReturn
    /\ locks = [id \in ClusterIDs |-> FALSE]
    /\ cluster = [id \in ClusterIDs |-> NoCluster]
    /\ runtime = Nil
    /\ \/ /\ pc = [p \in Procs |-> IF p = 1 THEN "expand" ELSE "idle"]
          /\ \E e \in EncryptionBlocks :
               d = [p \in Procs |-> [encryption |-> IF p = 1 THEN <<e>> ELSE <<>>]]
          /\ workspace = Nil
       \/ /\ pc = [p \in Procs |-> IF p = 1 THEN "flatten" ELSE "idle"]
          /\ d = [p \in Procs |-> [encryption |-> <<>>]]
          /\ workspace \in EncryptionProperties

\* Lines 324-327: len(model.Encryption) > 0, and the block is expanded.
ExpandEncryptionStep ==
    /\ pc[1] = "expand"
    /\ Len(d[1].encryption) > 0
    /\ workspace' = expandEncryption(d[1].encryption)
    /\ pc' = [pc EXCEPT ![1] = "flatten"]
    /\ UNCHANGED <<resource, op, d, loc, log, returned, locks, cluster, runtime>>

\* Lines 514-518.
FlattenEncryptionStep ==
    /\ pc[1] = "flatten"
    /\ loc' = [loc EXCEPT ![1].payload = flattenEncryption(workspace)]
    /\ pc' = [pc EXCEPT ![1] = "flattened"]
    /\ UNCHANGED <<resource, op, d, log, returned, locks, cluster, workspace, runtime>>

NextEncryption == ExpandEncryptionStep \/ FlattenEncryptionStep

SpecEncryption == InitEncryption /\ [][NextEncryption]_vars

(***************************************************************************)
(*                              PROPERTIES                                 *)
(***************************************************************************)
Mutations == {"Create", "Update", "Delete"}

\* Instance p is between its lock step and its return.
CmkPastLock(p) ==
    /\ resource = CMK
    /\ op[p] \in Mutations
    /\ pc[p] \in {"get", "write", "wait", "read"}

\* The response of the first call of a handler carried cluster properties
\* with a non-nil, non-empty KeyName.
FetchedKeyName(calls) ==
    /\ Len(calls) >= 1
    /\ calls[1].call = "Get"
    /\ calls[1].Model # Nil
    /\ calls[1].Model[1].Properties # Nil
    /\ CmkKeyExists(calls[1].Model[1].Properties[1])

(***************************************************************************)
(* C1.  Create, Update and Delete of the customer managed key hold the     *)
(* lock named by the cluster ID from before their Get until they return:   *)
(* an instance that has issued a call, or is about to issue Get, holds the *)
(* lock, and no two instances are between lock and return for the same     *)
(* cluster ID, so their Get -> CreateOrUpdateThenPoll sections never       *)
(* overlap.                                                                *)
(***************************************************************************)
C1_SectionsNeverOverlap ==
    /\ \A p \in Procs :
         /\ CmkPastLock(p) => locks[loc[p].id]
         /\ (resource = CMK /\ op[p] \in Mutations /\ log[p] # <<>>) => CmkPastLock(p)
    /\ \A p, q \in Procs :
         (p # q /\ CmkPastLock(p) /\ CmkPastLock(q)) => loc[p].id # loc[q].id

\* One instance is between Get and CreateOrUpdateThenPoll while another
\* waits for the lock of the same cluster.
C1_Witness ==
    \E p, q \in Procs :
        /\ p # q
        /\ CmkPastLock(p) /\ pc[p] = "write"
        /\ resource = CMK /\ op[q] \in Mutations /\ pc[q] = "lock"
        /\ loc[q].id = loc[p].id

(***************************************************************************)
(* C3.  A customer managed key Create whose Get fetched KeyVaultProperties *)
(* with a non-nil, non-empty KeyName returns the import-as-exists error in *)
(* that step, having issued no CreateOrUpdateThenPoll, with the tracked ID *)
(* unset and the cluster as it was.                                        *)
(***************************************************************************)
C3_CreateOnExistingKey ==
    [][\A p \in Procs :
         (resource = CMK /\ op[p] = "Create" /\ pc[p] = "get" /\ pc'[p] # "get"
          /\ FetchedKeyName(IF returned'.p = p THEN returned'.log ELSE log'[p]))
         => /\ returned'.p = p
            /\ returned'.op = "Create"
            /\ returned'.err = "exists"
            /\ Writes(returned'.log) = {}
            /\ d'[p].id = EmptyString
            /\ cluster' = cluster]_vars

\* A Create returned the import-as-exists error.
C3_Witness ==
    /\ resource = CMK
    /\ returned.op = "Create"
    /\ returned.err = "exists"
    /\ FetchedKeyName(returned.log)

\* The last call of a non-empty call log.
LastCall(calls) == calls[Len(calls)]

\* The calls instance p's handler has made by the end of a step.
LogAfter(p) == IF returned'.p = p THEN returned'.log ELSE log'[p]

\* The step is the body of Read for instance p: the Read handler itself, or
\* the Read that Create and Update end with.
ReadStep(p) ==
    /\ returned'.p = p
    /\ returned'.op = "Read" \/ pc[p] = "read"
    /\ returned'.log # <<>>
    /\ LastCall(returned'.log).call = "Get"

(***************************************************************************)
(* C2.  Create of a new resource (AI Foundry Create, SSIS CreateUpdate     *)
(* with IsNewResource) issues a Get before any other call.  When the Get   *)
(* is answered with anything but an error (the entity exists), Create      *)
(* returns the import-as-exists error in that step; when it is answered    *)
(* with an error other than not-found, Create returns that error.  Either  *)
(* way no CreateOrUpdate call is issued, the tracked ID stays unset and    *)
(* the remote entity is unchanged.                                         *)
(***************************************************************************)
C2_CreateChecksExistence ==
    [][\A p \in Procs :
         (resource \in {AIF, SSIS} /\ pc[p] = "idle"
          /\ (op'[p] = "Create" \/ (returned'.p = p /\ returned'.op = "Create"))
          /\ LogAfter(p) # <<>>)
         => /\ Len(LogAfter(p)) = 1
            /\ LogAfter(p)[1].call = "Get"
            /\ LogAfter(p)[1].status # "notfound"
                 => /\ returned'.p = p
                    /\ returned'.err = IF LogAfter(p)[1].status = "ok"
                                       THEN "exists" ELSE "checking"
                    /\ Writes(returned'.log) = {}
                    /\ d'[p].id = EmptyString
                    /\ workspace' = workspace
                    /\ runtime' = runtime]_vars

\* An SSIS CreateUpdate of a new resource found the runtime and returned the
\* import-as-exists error.
C2_Witness ==
    /\ resource = SSIS
    /\ returned.op = "Create"
    /\ returned.err = "exists"
    /\ Len(returned.log) = 1
    /\ returned.log[1].status = "ok"
    /\ runtime # Nil

(***************************************************************************)
(* C4.  In every Read (AI Foundry, SSIS integration runtime, customer      *)
(* managed key; called by the engine or by Create / Update), when the Get  *)
(* is answered not-found, Read returns no error and the record is removed  *)
(* from the tracked state: the ID is cleared.                              *)
(***************************************************************************)
C4_ReadNotFound ==
    [][\A p \in Procs :
         (ReadStep(p) /\ LastCall(returned'.log).status = "notfound")
         => /\ returned'.err = "nil"
            /\ d'[p].id = EmptyString
            /\ d'[p] = EmptyData]_vars

\* An AI Foundry Read met a workspace that is gone.
C4_Witness ==
    /\ resource = AIF
    /\ returned.op = "Read"
    /\ returned.err = "nil"
    /\ returned.log # <<>>
    /\ LastCall(returned.log).status = "notfound"
    /\ d[returned.p].id = EmptyString

(***************************************************************************)
(* C5.  In every Read, when the Get fails with an error that is not a      *)
(* not-found response, Read returns an error and leaves the ResourceData   *)
(* as it was: the tracked ID is unchanged and no field is written.         *)
(***************************************************************************)
C5_ReadError ==
    [][\A p \in Procs :
         (ReadStep(p) /\ LastCall(returned'.log).status = "error")
         => /\ returned'.err = "retrieving"
            /\ d'[p].id # EmptyString
            /\ d'[p] = d[p]]_vars

\* The Read that ends an SSIS CreateUpdate failed to fetch the runtime.
C5_Witness ==
    /\ resource = SSIS
    /\ returned.op = "Create"
    /\ returned.err = "retrieving"
    /\ Len(returned.log) = 3
    /\ LastCall(returned.log).status = "error"
    /\ d[returned.p].id # EmptyString

\* The mutating calls of a call log that returned an error.
FailedWrites(calls) == {i \in Writes(calls) : calls[i].failed}

\* No handler has issued more than one mutating call.
AtMostOneWrite ==
    /\ \A p \in Procs : Cardinality(Writes(log[p])) <= 1
    /\ Cardinality(Writes(returned.log)) <= 1

(***************************************************************************)
(* C6 as stated.  Every Create, Update and Delete issues at most one       *)
(* mutating call, and when that call returns an error the operation        *)
(* returns an error.                                                       *)
(***************************************************************************)
C6_Original ==
    /\ AtMostOneWrite
    /\ (returned.op \in Mutations /\ FailedWrites(returned.log) # {})
         => returned.err # "nil"

(***************************************************************************)
(* C6.  Every Create, Update and Delete (AI Foundry, SSIS integration      *)
(* runtime, customer managed key) issues at most one mutating call.  When  *)
(* that call returns an error the operation returns an error, except that  *)
(* the SSIS Delete returns no error when its Delete call fails with a      *)
(* not-found response.                                                     *)
(***************************************************************************)
C6_NoRetry ==
    /\ AtMostOneWrite
    /\ (returned.op \in Mutations /\ FailedWrites(returned.log) # {})
         => IF resource = SSIS /\ returned.op = "Delete"
               /\ LastCall(returned.log).status = "notfound"
            THEN returned.err = "nil"
            ELSE returned.err # "nil"

\* An AI Foundry Update whose write failed returned an error after that one
\* call.
C6_Witness ==
    /\ resource = AIF
    /\ returned.op = "Update"
    /\ returned.err = "updating"
    /\ Cardinality(Writes(returned.log)) = 1
    /\ FailedWrites(returned.log) # {}

\* The last call of a call log is a mutating call that succeeded.
WriteSucceeded(calls) ==
    /\ calls # <<>>
    /\ LastCall(calls).call \in MutatingCalls
    /\ ~LastCall(calls).failed

(***************************************************************************)
(* C7.  In AI Foundry Create, SSIS CreateUpdate and customer managed key   *)
(* Create the tracked ID goes from unset to set only in the step in which  *)
(* the write call returned success (for the customer managed key: in which *)
(* the wait for the cluster state that follows the successful write        *)
(* returned success); the only other way an ID gets set is an import.  A   *)
(* Create that returns an error before that point leaves the ID unset.  In *)
(* the SSIS and customer managed key resources the Read that ends the      *)
(* handler runs only with the ID set.                                      *)
(***************************************************************************)
C7_IdAfterWrite ==
    [][\A p \in Procs :
         /\ (d[p].id = EmptyString /\ d'[p].id # EmptyString)
              => \/ op'[p] = "Import"
                 \/ returned'.p = p /\ returned'.op = "Import"
                 \/ /\ op[p] = "Create"
                    /\ IF resource = CMK
                       THEN pc[p] = "wait" /\ WriteSucceeded(log[p])
                       ELSE pc[p] = "write" /\ WriteSucceeded(LogAfter(p))
         /\ (returned'.p = p /\ returned'.op = "Create" /\ returned'.err # "nil"
             /\ pc[p] # "read")
              => d'[p].id = EmptyString
         /\ (resource \in {SSIS, CMK} /\ pc'[p] = "read")
              => /\ d'[p].id # EmptyString
                 /\ WriteSucceeded(log'[p])]_vars

\* An SSIS CreateUpdate of a new resource has written the runtime and set
\* the ID, and is about to run Read.
C7_Witness ==
    \E p \in Procs :
        /\ resource = SSIS
        /\ op[p] = "Create"
        /\ pc[p] = "read"
        /\ d[p].id # EmptyString
        /\ WriteSucceeded(log[p])

\* The conditions under which the importer accepts the ID `id`, given the
\* calls it made.
ImporterAccepts(id, calls) ==
    /\ ~ParseWorkspaceID(id).err
    /\ calls # <<>>
    /\ calls[1].status = "ok"
    /\ calls[1].Model # Nil
    /\ calls[1].Model[1].Kind # Nil
    /\ EqualFold(calls[1].Model[1].Kind[1], "Hub")

\* The step is the run of the AI Foundry custom importer for instance p.
ImporterStep(p) ==
    /\ resource = AIF
    /\ op[p] = "Import"
    /\ pc[p] = "import"
    /\ returned'.p = p

Components(data) ==
    IF data.express_custom_setup = <<>> THEN <<>>
    ELSE data.express_custom_setup[1].component

CommandKeys(data) ==
    IF data.express_custom_setup = <<>> THEN <<>>
    ELSE data.express_custom_setup[1].command_key

SensitiveValues(data) ==
    [administrator_password |->
         [i \in 1..Len(data.catalog_info) |-> data.catalog_info[i].administrator_password],
     sas_token |->
         [i \in 1..Len(data.custom_setup_script) |-> data.custom_setup_script[i].sas_token],
     license |->
         [i \in 1..Len(Components(data)) |-> Components(data)[i].license],
     password |->
         [i \in 1..Len(CommandKeys(data)) |-> CommandKeys(data)[i].password]]

\* Every sensitive value of `data` is the empty string.
NoSensitiveValue(data) ==
    LET s == SensitiveValues(data)
    IN \A f \in DOMAIN s : \A i \in 1..Len(s[f]) : s[f][i] = ""

\* The entries of `entries` that agree with `entry` on every key of `keys`.
Matching(entries, entry, keys) ==
    {j \in 1..Len(entries) : \A k \in keys : entries[j][k] = entry[k]}

\* `value` is the property of a matching entry, or empty when none matches.
ReadBack(value, entries, entry, keys, propertyName) ==
    IF Matching(entries, entry, keys) = {}
    THEN value = ""
    ELSE \E j \in Matching(entries, entry, keys) : value = entries[j][propertyName]

\* The sensitive values of `new` are those of `old`, matched by key.
CopiedFromPriorState(old, new) ==
    /\ \A i \in 1..Len(new.catalog_info) :
         new.catalog_info[i].administrator_password =
             IF old.catalog_info # <<>>
             THEN old.catalog_info[1].administrator_password ELSE ""
    /\ \A i \in 1..Len(new.custom_setup_script) :
         new.custom_setup_script[i].sas_token =
             IF old.custom_setup_script # <<>>
             THEN old.custom_setup_script[1].sas_token ELSE ""
    /\ \A i \in 1..Len(Components(new)) :
         ReadBack(Components(new)[i].license, Components(old), Components(new)[i],
                  {"name"}, "license")
    /\ \A i \in 1..Len(CommandKeys(new)) :
         ReadBack(CommandKeys(new)[i].password, CommandKeys(old), CommandKeys(new)[i],
                  {"target_name", "user_name"}, "password")

\* No two components share a name, no two command keys a target and user.
DistinctKeys(data) ==
    /\ \A i, j \in 1..Len(Components(data)) :
         Components(data)[i].name = Components(data)[j].name => i = j
    /\ \A i, j \in 1..Len(CommandKeys(data)) :
         (/\ CommandKeys(data)[i].target_name = CommandKeys(data)[j].target_name
          /\ CommandKeys(data)[i].user_name = CommandKeys(data)[j].user_name) => i = j

\* The step is the Read that ends an SSIS CreateUpdate of a new resource,
\* and it returned no error.
ReadAfterCreate(p) ==
    /\ resource = SSIS
    /\ ReadStep(p)
    /\ op[p] = "Create"
    /\ pc[p] = "read"
    /\ returned'.err = "nil"

\* What C10 says of every SSIS Read: the sensitive values come from the
\* prior state, never from the response; with an empty prior state they
\* are empty.
SensitiveValuesReadBack(p) ==
    (resource = SSIS /\ ReadStep(p))
    => /\ CopiedFromPriorState(d[p], d'[p])
       /\ NoSensitiveValue(d[p]) => NoSensitiveValue(d'[p])

(***************************************************************************)
(* C10 as stated.  SSIS Read copies every sensitive value from the tracked *)
(* state as it was before the Read (matched by component name, and by      *)
(* target_name and user_name) and leaves it empty when nothing matches;    *)
(* a Read directly after Create leaves these fields equal to the           *)
(* configured values, and a Read with an empty prior state leaves them     *)
(* empty.                                                                  *)
(***************************************************************************)
C10_Original ==
    [][\A p \in Procs :
         /\ SensitiveValuesReadBack(p)
         /\ ReadAfterCreate(p)
              => SensitiveValues(d'[p]) = SensitiveValues(d[p])]_vars

(***************************************************************************)
(* C10.  SSIS Read never takes a sensitive value from the API response:    *)
(* administrator_password, sas_token, each component license and each      *)
(* command_key password are copied from a matching entry of the tracked    *)
(* state as it was before the Read, and are empty when none matches; with  *)
(* an empty prior state (import) they are empty.  A Read directly after    *)
(* Create leaves these fields equal to the configured values provided no   *)
(* two configured components share a name and no two configured command    *)
(* keys share target_name and user_name.                                   *)
(***************************************************************************)
C10_SensitiveValuesReadBack ==
    [][\A p \in Procs :
         /\ SensitiveValuesReadBack(p)
         /\ (ReadAfterCreate(p) /\ DistinctKeys(d[p]))
              => SensitiveValues(d'[p]) = SensitiveValues(d[p])]_vars

\* A CreateUpdate of a new resource with two components and two command
\* keys ended with a Read that kept every configured secret.
C10_Witness ==
    /\ resource = SSIS
    /\ returned.op = "Create"
    /\ returned.err = "nil"
    /\ Len(returned.log) = 3
    /\ LastCall(returned.log).Model # Nil
    /\ SensitiveValues(d[returned.p]) =
           [administrator_password |-> <<"pw0">>,
            sas_token |-> <<"sas1">>,
            license |-> <<"lic1", "lic2">>,
            password |-> <<"pw1", "pw2">>]

(***************************************************************************)
(* C9.  For the block pipeline_external_compute_scale flatten is the       *)
(* inverse of expand: for all e, p in 1..10 and t >= 5, flattening the API *)
(* properties expanded from {number_of_external_nodes = e,                 *)
(* number_of_pipeline_nodes = p, time_to_live = t} yields the same three   *)
(* values.                                                                 *)
(***************************************************************************)
C9_FlattenInvertsExpand ==
    [][(pc[1] = "flatten" /\ pc'[1] = "flattened")
       => d'[1].pipeline_external_compute_scale
            = d[1].pipeline_external_compute_scale]_vars

\* What the message of line 60 asks of a name: at least 3 characters, a
\* letter or digit first and last, only letters, digits and dashes, and no
\* two dashes in a row.
WellFormedName(s) ==
    /\ Len(s) >= 3
    /\ IsAlnum(s[1])
    /\ IsAlnum(s[Len(s)])
    /\ \A i \in 1..Len(s) : IsAlnum(s[i]) \/ s[i] = "-"
    /\ \A i \in 1..(Len(s) - 1) : ~(s[i] = "-" /\ s[i + 1] = "-")

(***************************************************************************)
(* C11.  The validation of the SSIS integration runtime name accepts a     *)
(* string if and only if it has at least 3 characters, starts and ends     *)
(* with a letter or digit, consists only of letters, digits and dashes and *)
(* contains no two consecutive dashes.                                     *)
(***************************************************************************)
C11_NameValidation ==
    pc[1] = "validated"
    => (returned.err = "nil" <=> WellFormedName(d[1].name))

\* The input is exactly /subscriptions/<id>/resourceGroups/<rg>/providers/
\* Microsoft.Sql/managedInstances/<instance>/startStopSchedules/<name>,
\* every value non-empty and every fixed segment in its exact letter case.
ExactScheduleId(input) ==
    /\ Len(input) = 11
    /\ input[1] = ""
    /\ input[2] = "subscriptions" /\ input[3] # ""
    /\ input[4] = "resourceGroups" /\ input[5] # ""
    /\ input[6] = "providers" /\ input[7] = "Microsoft.Sql"
    /\ input[8] = "managedInstances" /\ input[9] # ""
    /\ input[10] = "startStopSchedules" /\ input[11] # ""

\* The input stops at a missing segment or a missing value of the valid ID.
StopsShort(input) ==
    /\ Len(input) <= Len(ValidInput)
    /\ input[Len(input)] = ""
    /\ SubSeq(input, 1, Len(input) - 1) = SubSeq(ValidInput, 1, Len(input) - 1)

CmkErrorsUnderLock ==
    {"notfound", "retrieving", "modelnil", "propsnil", "exists", "nokey",
     "keyparse", "write", "logAnalyticsClusterWaitForState",
     "WaitForStateContext", "keyid"}

\* The lock of a cluster ID is held exactly while a mutation of that
\* cluster is between its lock step and its return.
LockHeldByMutation ==
    \A id \in ClusterIDs :
        locks[id] <=> \E p \in Procs : CmkPastLock(p) /\ loc[p].id = id

(***************************************************************************)
(* C13.  The cluster lock is held only for the duration of one mutation:   *)
(* a lock is held exactly while a customer managed key Create, Update or   *)
(* Delete is between its lock step and its return, and in the step in      *)
(* which such a handler returns, with nil or with any error, the lock of   *)
(* its cluster ID is released.  A handler whose cluster ID does not parse  *)
(* returns the parse error without having touched any lock.                *)
(***************************************************************************)
C13_LockReleasedOnReturn ==
    [][/\ LockHeldByMutation
       /\ \A p \in Procs :
            (resource = CMK /\ returned'.p = p /\ returned'.op \in Mutations)
            => IF pc[p] = "idle"
               THEN /\ returned'.err = "parse"
                    /\ returned'.log = <<>>
                    /\ locks' = locks
               ELSE /\ CmkPastLock(p)
                    /\ returned'.err \in CmkErrorsUnderLock \cup {"nil"}
                    /\ locks[loc[p].id]
                    /\ ~locks'[loc[p].id]
                    /\ \A id \in ClusterIDs \ {loc[p].id} : locks'[id] = locks[id]]_vars

\* A Create whose wait for the cluster state failed has returned, and no
\* lock is held.
C13_Witness ==
    /\ resource = CMK
    /\ returned.op = "Create"
    /\ returned.err = "WaitForStateContext"
    /\ \A id \in ClusterIDs : ~locks[id]

\* A step that takes a lock is the lock step of a handler that holds none:
\* it takes the lock of the handler's own cluster ID and no other.
OneLockPerMutation ==
    \A id \in ClusterIDs :
        (~locks[id] /\ locks'[id])
        => /\ \A other \in ClusterIDs \ {id} : locks'[other] = locks[other]
           /\ \E p \in Procs :
                /\ pc[p] = "lock" /\ pc'[p] = "get"
                /\ loc[p].id = id
                /\ \A q \in Procs \ {p} : pc'[q] = pc[q]

\* No state is a deadlock: when a handler is running, one of them can step.
SomeHandlerCanStep ==
    (\E p \in Procs : pc[p] # "idle")
    => \E p \in Procs : ENABLED (CmkLockStep(p) \/ CmkCallStep(p))

ClusterHasKey(id) == CmkKeyExists(cluster[id].Properties)

\* The Get of the call log answered with the cluster and its properties.
FetchedProperties(calls) ==
    /\ calls # <<>>
    /\ LastCall(calls).call = "Get"
    /\ LastCall(calls).status = "ok"
    /\ LastCall(calls).Model # Nil
    /\ LastCall(calls).Model[1].Properties # Nil

(***************************************************************************)
(* C15.  Of the customer managed key Creates that run concurrently against *)
(* one cluster, at most one writes its key: a Create issues its write only *)
(* while the cluster has no key, every other Create of that cluster has    *)
(* yet to issue its Get at that point, a write that is applied leaves the  *)
(* cluster with a key, and a Create whose Get fetches the cluster while it *)
(* has a key returns the import-as-exists error without writing.  So no    *)
(* Create overwrites the key another has written.                          *)
(***************************************************************************)
C15_NoCreateOverwritesKey ==
    [][\A p \in Procs :
         /\ (resource = CMK /\ op[p] = "Create" /\ pc[p] = "write" /\ pc'[p] # "write")
            => /\ ~ClusterHasKey(loc[p].id)
               /\ cluster' # cluster => CmkKeyExists(cluster'[loc[p].id].Properties)
               /\ \A q \in Procs \ {p} :
                    (op[q] = "Create" /\ loc[q].id = loc[p].id) => pc[q] = "lock"
         /\ (resource = CMK /\ op[p] = "Create" /\ pc[p] = "get" /\ pc'[p] # "get"
             /\ ClusterHasKey(loc[p].id) /\ FetchedProperties(LogAfter(p)))
            => /\ returned'.p = p
               /\ returned'.err = "exists"
               /\ Writes(returned'.log) = {}
               /\ cluster' = cluster]_vars

\* Two Creates run against one cluster: one has written its key and waits
\* for the cluster's state, the other waits for the lock.
C15_Witness ==
    \E p, q \in Procs :
        /\ resource = CMK
        /\ op[p] = "Create" /\ pc[p] = "wait" /\ WriteSucceeded(log[p])
        /\ op[q] = "Create" /\ pc[q] = "lock"
        /\ loc[q].id = loc[p].id
        /\ ClusterHasKey(loc[p].id)

\* The error a customer managed key mutation owes to the response of its
\* Get: the cluster was not found, the Get failed otherwise, the model or
\* its properties are nil, or (Delete only) the cluster has no
\* KeyVaultProperties or an empty KeyName; "nil" when none of these holds.
ErrorOfGet(name, get) ==
    IF get.status = "notfound" THEN "notfound"
    ELSE IF get.status # "ok" THEN "retrieving"
    ELSE IF get.Model = Nil THEN "modelnil"
    ELSE IF get.Model[1].Properties = Nil THEN "propsnil"
    ELSE IF name = "Delete" /\ ~CmkKeyExists(get.Model[1].Properties[1]) THEN "nokey"
    ELSE "nil"

(***************************************************************************)
(* C16.  Customer managed key Create, Update and Delete return an error    *)
(* and issue no CreateOrUpdateThenPoll when the Get of the cluster fails   *)
(* (a cluster that is not found is an error for Delete as well, and the    *)
(* record stays tracked) or the fetched model or its properties are nil;   *)
(* Delete also returns an error without writing when the cluster has no    *)
(* KeyVaultProperties or an empty KeyName.  The cluster and the tracked   *)
(* ID are left as they were.                                               *)
(***************************************************************************)
C16_GetFailureIsError ==
    [][\A p \in Procs :
         (resource = CMK /\ op[p] \in Mutations /\ pc[p] = "get" /\ pc'[p] # "get"
          /\ LogAfter(p) # <<>>)
         => LET get == LastCall(LogAfter(p))
            IN /\ get.call = "Get"
               /\ ErrorOfGet(op[p], get) # "nil"
                    => /\ returned'.p = p
                       /\ returned'.op = op[p]
                       /\ returned'.err = ErrorOfGet(op[p], get)
                       /\ Writes(returned'.log) = {}
                       /\ cluster' = cluster
                       /\ d'[p].id = d[p].id]_vars

\* A Delete of a key whose cluster is gone returned the not-found error and
\* the record is still tracked.
C16_Witness ==
    /\ resource = CMK
    /\ returned.op = "Delete"
    /\ returned.err = "notfound"
    /\ Writes(returned.log) = {}
    /\ d[returned.p].id \in ClusterIDs
    /\ ~cluster[d[returned.p].id].exists

\* The KeyVaultProperties a Delete sends: a record, not nil, of three empty
\* strings.
RemovedKey == PointerTo(KeyVaultProperties(PointerTo(""), PointerTo(""), PointerTo("")))

\* The Get of the call log answered with a cluster whose key was removed.
FetchedRemovedKey(calls) ==
    /\ FetchedProperties(calls)
    /\ LastCall(calls).Model[1].Properties[1].KeyVaultProperties = RemovedKey

(***************************************************************************)
(* C17.  A successful customer managed key Delete leaves the cluster       *)
(* counted as having no key.  The payload of Delete carries                *)
(* KeyVaultProperties with KeyVaultUri, KeyName and KeyVersion set to the  *)
(* empty string, never nil, and that is what the cluster holds when the    *)
(* write succeeded.  A Read whose Get returns the cluster in that state    *)
(* clears the tracked ID and returns no error; a Create whose Get returns  *)
(* it does not return the already-exists error.                            *)
(***************************************************************************)
C17_DeleteLeavesNoKey ==
    [][\A p \in Procs :
         /\ (resource = CMK /\ op[p] = "Delete" /\ pc'[p] = "write")
            => /\ loc'[p].payload # Nil
               /\ loc'[p].payload[1].Properties[1].KeyVaultProperties = RemovedKey
         /\ (resource = CMK /\ op[p] = "Delete" /\ pc[p] = "write"
             /\ returned'.p = p /\ returned'.err = "nil")
            => /\ cluster'[loc[p].id].Properties.KeyVaultProperties = RemovedKey
               /\ ~CmkKeyExists(cluster'[loc[p].id].Properties)
         /\ (resource = CMK /\ returned'.p = p /\ returned'.op = "Read"
             /\ FetchedRemovedKey(returned'.log))
            => /\ returned'.err = "nil"
               /\ d'[p].id = EmptyString
         /\ (resource = CMK /\ op[p] = "Create" /\ pc[p] = "get" /\ pc'[p] # "get"
             /\ FetchedRemovedKey(LogAfter(p)))
            => \/ pc'[p] = "write"
               \/ returned'.p = p /\ returned'.err = "keyparse"]_vars

\* A Delete has just returned without error, the cluster holds the three
\* empty strings, and another instance is waiting to Create on that cluster.
C17_Witness ==
    \E q \in Procs, id \in ClusterIDs :
        /\ resource = CMK
        /\ returned.op = "Delete"
        /\ returned.err = "nil"
        /\ WriteSucceeded(returned.log)
        /\ cluster[id].Properties.KeyVaultProperties = RemovedKey
        /\ q # returned.p
        /\ op[q] = "Create" /\ pc[q] = "lock" /\ loc[q].id = id

\* The fields of the cluster properties that a customer managed key
\* operation sets; every other field is outside its reach.
CmkOwnFields == {"AssociatedWorkspaces", "KeyVaultProperties"}

\* The KeyVaultProperties of a key_vault_key_id of the configuration: vault
\* URL, key name, and the version or the empty string.
ConfiguredKey(keyVaultKeyId) ==
    PointerTo(KeyVaultProperties(PointerTo(keyVaultKeyId[1]),
                                 PointerTo(keyVaultKeyId[3]),
                                 PointerTo(IF Len(keyVaultKeyId) >= 4
                                           THEN keyVaultKeyId[4] ELSE "")))

(***************************************************************************)
(* C18.  The payload that customer managed key Create, Update or Delete    *)
(* sends to CreateOrUpdateThenPoll equals the model its Get returned       *)
(* except for two fields: Properties.AssociatedWorkspaces is nil, and      *)
(* Properties.KeyVaultProperties is the configured key (Create, Update) or *)
(* three empty strings (Delete).  The write changes no other field of the  *)
(* cluster, and no other cluster.                                          *)
(***************************************************************************)
C18_PayloadIsFetchedModel ==
    [][\A p \in Procs :
         /\ (resource = CMK /\ op[p] \in Mutations /\ pc[p] = "get" /\ pc'[p] = "write")
            => LET model == LastCall(log'[p]).Model[1]
                   payload == loc'[p].payload[1]
               IN /\ LastCall(log'[p]).call = "Get"
                  /\ DOMAIN payload = DOMAIN model
                  /\ \A f \in DOMAIN model \ {"Properties"} : payload[f] = model[f]
                  /\ DOMAIN payload.Properties[1] = DOMAIN model.Properties[1]
                  /\ \A f \in DOMAIN model.Properties[1] \ CmkOwnFields :
                       payload.Properties[1][f] = model.Properties[1][f]
                  /\ payload.Properties[1].AssociatedWorkspaces = Nil
                  /\ payload.Properties[1].KeyVaultProperties =
                       IF op[p] = "Delete" THEN RemovedKey
                       ELSE ConfiguredKey(d[p].key_vault_key_id)
         /\ (resource = CMK /\ op[p] \in Mutations /\ pc[p] = "write" /\ pc'[p] # "write")
            => /\ LastCall(LogAfter(p)).call = "CreateOrUpdateThenPoll"
               /\ loc[p].payload = loc'[p].payload \/ returned'.p = p
               /\ \A id \in ClusterIDs \ {loc[p].id} : cluster'[id] = cluster[id]
               /\ cluster'[loc[p].id].exists = cluster[loc[p].id].exists
               /\ \A f \in DOMAIN cluster[loc[p].id].Properties \ {"KeyVaultProperties"} :
                    cluster'[loc[p].id].Properties[f] = cluster[loc[p].id].Properties[f]]_vars

\* An Update is about to write: the model it fetched lists a workspace and a
\* billing type, its payload carries the billing type and no workspace.
C18_Witness ==
    \E p \in Procs :
        /\ resource = CMK
        /\ op[p] = "Update" /\ pc[p] = "write"
        /\ LastCall(log[p]).Model[1].Properties[1].AssociatedWorkspaces # Nil
        /\ LastCall(log[p]).Model[1].Properties[1].BillingType = PointerTo("Cluster")
        /\ loc[p].payload[1].Properties[1].BillingType = PointerTo("Cluster")
        /\ loc[p].payload[1].Properties[1].AssociatedWorkspaces = Nil
        /\ loc[p].payload[1].Properties[1].KeyVaultProperties
             = ConfiguredKey(d[p].key_vault_key_id)

\* The property of the workspace that holds an argument of the hub.
AifPropertyOf(f) ==
    CASE f = "application_insights_id" -> "ApplicationInsights"
      [] f = "container_registry_id" -> "ContainerRegistry"
      [] f = "public_network_access" -> "PublicNetworkAccess"
      [] f = "description" -> "Description"
      [] f = "primary_user_assigned_identity" -> "PrimaryUserAssignedIdentity"

\* Instance p's Update has issued its Get in this step.
AifUpdateGetStep(p) ==
    /\ resource = AIF
    /\ pc[p] = "idle"
    /\ op'[p] = "Update" \/ (returned'.p = p /\ returned'.op = "Update")
    /\ LogAfter(p) # <<>>

(***************************************************************************)
(* C19.  AI Foundry Update is a read-modify-write.  Its payload is the     *)
(* model its Get returned in which every argument whose value changed is   *)
(* overwritten with the new value; every other field, of the model and of  *)
(* its properties, is sent back as the Get returned it.  When the Get      *)
(* fails or returns a nil model or nil properties, Update returns an error *)
(* and makes no write.                                                     *)
(***************************************************************************)
C19_UpdateIsReadModifyWrite ==
    [][\A p \in Procs :
         AifUpdateGetStep(p)
         => LET get == LastCall(LogAfter(p))
            IN /\ get.call = "Get"
               /\ (get.status # "ok" \/ get.Model = Nil \/ get.Model[1].Properties = Nil)
                  => /\ returned'.p = p
                     /\ returned'.err =
                          (IF get.status # "ok" THEN "retrieving"
                           ELSE IF get.Model = Nil THEN "modelnil" ELSE "propsnil")
                     /\ Writes(returned'.log) = {}
                     /\ workspace' = workspace
               /\ pc'[p] = "write"
                  => LET model == get.Model[1]
                         payload == loc'[p].payload[1]
                         changed == {f \in AifUpdatable : d'[p][f] # d[p][f]}
                     IN /\ DOMAIN payload = DOMAIN model
                        /\ \A k \in DOMAIN model \ {"Properties"} : payload[k] = model[k]
                        /\ DOMAIN payload.Properties[1] = DOMAIN model.Properties[1]
                        /\ \A f \in changed :
                             payload.Properties[1][AifPropertyOf(f)] = PointerTo(d'[p][f])
                        /\ \A k \in DOMAIN model.Properties[1]
                                      \ {AifPropertyOf(f) : f \in changed} :
                             payload.Properties[1][k] = model.Properties[1][k]]_vars

\* An Update that changed the description alone is about to write: the
\* application insights ID goes back in the spelling the Get returned, which
\* is not the spelling of the state.
C19_Witness ==
    \E p \in Procs :
        /\ resource = AIF
        /\ op[p] = "Update" /\ pc[p] = "write"
        /\ loc[p].changed = {"description"}
        /\ loc[p].payload[1].Properties[1].Description = PointerTo(d[p].description)
        /\ LastCall(log[p]).Model[1].Properties[1].Description
             # loc[p].payload[1].Properties[1].Description
        /\ loc[p].payload[1].Properties[1].ApplicationInsights
             = PointerTo(<<"Components", "ai1">>)
        /\ d[p].application_insights_id = ComponentID

\* The optional arguments of the hub that hold a resource ID.
AifOptionalIds ==
    {"application_insights_id", "container_registry_id",
     "primary_user_assigned_identity"}

(***************************************************************************)
(* C20.  In AI Foundry Update, when application_insights_id,               *)
(* container_registry_id or primary_user_assigned_identity has changed and *)
(* its new value is the empty string, Update returns the error of the      *)
(* resource ID parser and issues no CreateOrUpdateThenPoll: the workspace  *)
(* keeps the value it had for that field.                                  *)
(***************************************************************************)
C20_RemovedIdFailsUpdate ==
    [][\A p \in Procs :
         (/\ AifUpdateGetStep(p)
          /\ FetchedProperties(LogAfter(p))
          /\ \E f \in AifOptionalIds :
               d[p][f] # EmptyString /\ d'[p][f] = EmptyString)
         => /\ returned'.p = p
            /\ returned'.op = "Update"
            /\ returned'.err = "parse"
            /\ Writes(returned'.log) = {}
            /\ workspace' = workspace]_vars

\* An Update whose configuration no longer names the container registry has
\* returned the parse error; the workspace still refers to the registry.
C20_Witness ==
    /\ resource = AIF
    /\ returned.op = "Update"
    /\ returned.err = "parse"
    /\ FetchedProperties(returned.log)
    /\ d[returned.p].container_registry_id = EmptyString
    /\ d[returned.p].application_insights_id = ComponentID
    /\ workspace # Nil
    /\ workspace[1].Properties[1].ContainerRegistry = PointerTo(RegistryID)

\* The three IDs of an encryption block are in the form their parsers
\* return; the optional identity may be absent.
CanonicalEncryption(e) ==
    /\ ~ParseKeyVaultID(e.key_vault_id).err
    /\ ParseKeyVaultID(e.key_vault_id).id = e.key_vault_id
    /\ ~ParseNestedItemID(e.key_id).err
    /\ ParseNestedItemID(e.key_id).ID = e.key_id
    /\ \/ e.user_assigned_identity_id = EmptyString
       \/ /\ ~ParseUserAssignedIdentityIDInsensitively(e.user_assigned_identity_id).err
          /\ ParseUserAssignedIdentityIDInsensitively(e.user_assigned_identity_id).id
               = e.user_assigned_identity_id

(***************************************************************************)
(* C21.  For the encryption block of the AI Foundry hub, flatten is the    *)
(* inverse of expand: a block whose key_vault_id, key_id and               *)
(* user_assigned_identity_id are in canonical form comes back from         *)
(* flattenEncryption(expandEncryption(...)) as it was, without error.      *)
(* flattenEncryption returns the empty list (and no error) exactly when    *)
(* the API value is nil or its status is not Enabled.                      *)
(***************************************************************************)
C21_EncryptionRoundTrip ==
    pc[1] = "flattened"
    => /\ (d[1].encryption # <<>> /\ CanonicalEncryption(d[1].encryption[1]))
          => loc[1].payload = [out |-> d[1].encryption, err |-> FALSE]
       /\ (loc[1].payload.out = <<>> /\ ~loc[1].payload.err)
          <=> (workspace = Nil \/ workspace[1].Status # "Enabled")

\* A canonical block that names an identity has come back as it was.
C21_Witness ==
    /\ pc[1] = "flattened"
    /\ d[1].encryption # <<>>
    /\ CanonicalEncryption(d[1].encryption[1])
    /\ d[1].encryption[1].user_assigned_identity_id = UserAssignedIdentityID
    /\ loc[1].payload.out = d[1].encryption

SsisDeleteReturn(p) ==
    /\ resource = SSIS
    /\ returned'.p = p
    /\ returned'.op = "Delete"
    /\ returned'.log # <<>>
    /\ LastCall(returned'.log).call = "Delete"

(***************************************************************************)
(* C23.  The SSIS Delete is idempotent with respect to a missing entity:   *)
(* when its Delete call succeeds or fails with a not-found response Delete *)
(* returns no error and the record is dropped, whether or not the runtime  *)
(* still existed (so a Delete of an ID whose runtime an earlier Delete has *)
(* removed returns success as well); when the call fails with any other    *)
(* error Delete returns the error that names the resource ID, and the      *)
(* record stays tracked under that ID.  Delete makes that one call only.   *)
(***************************************************************************)
C23_DeleteIdempotent ==
    [][\A p \in Procs :
         SsisDeleteReturn(p)
         => LET answer == LastCall(returned'.log).status
            IN /\ Len(returned'.log) = 1
               /\ IF answer \in {"ok", "notfound"}
                  THEN /\ returned'.err = "nil"
                       /\ d'[p] = SsisEmptyData
                  ELSE /\ returned'.err = "deleting"
                       /\ d'[p].id = d[p].id
                       /\ d[p].id \in IntegrationRuntimeIDs
               /\ (runtime = Nil /\ answer \in {"ok", "notfound"})
                    => (runtime' = Nil /\ returned'.err = "nil")]_vars

\* A Delete of a runtime that no longer exists has been answered not-found
\* and has returned no error; no record is tracked any more.
C23_Witness ==
    /\ resource = SSIS
    /\ returned.op = "Delete"
    /\ returned.err = "nil"
    /\ LastCall(returned.log).status = "notfound"
    /\ runtime = Nil
    /\ \A p \in Procs : ~IsTracked(p)

\* The step starts the SSIS CreateUpdate handler of instance p as an update.
SsisUpdateStart(p) ==
    /\ resource = SSIS
    /\ Idle(p)
    /\ IsTracked(p)
    /\ op'[p] = "Update" \/ (returned'.p = p /\ returned'.op = "Update")

(***************************************************************************)
(* C24.  The SSIS CreateUpdate run as an update (IsNewResource false)      *)
(* makes no existence check: it returns neither the import-as-exists error *)
(* nor the error of a failed check, and goes to its CreateOrUpdate call    *)
(* without having issued a Get, whether or not the runtime exists.  The    *)
(* call is issued with the payload expanded from the configuration; when   *)
(* it succeeds the runtime exists afterwards (an update of a runtime that  *)
(* was deleted in the meantime creates it again), the tracked ID is set to *)
(* the ID the record had, and the next step of the handler is Read.        *)
(***************************************************************************)
C24_UpdateRecreates ==
    [][\A p \in Procs :
         /\ SsisUpdateStart(p)
            => /\ LogAfter(p) = <<>>
               /\ returned'.p = p => returned'.err = "parse"
               /\ returned'.p # p => /\ pc'[p] = "write"
                                     /\ loc'[p].id = d[p].id
                                     /\ loc'[p].payload # Nil
               /\ runtime' = runtime
         /\ (SsisAt(p, "write") /\ op[p] = "Update")
            => /\ LastCall(LogAfter(p)).call = "CreateOrUpdate"
               /\ Len(LogAfter(p)) = 1
               /\ ~LastCall(LogAfter(p)).failed
                  => /\ runtime' = loc[p].payload
                     /\ runtime' # Nil
                     /\ d'[p].id = d[p].id
                     /\ pc'[p] = "read"
                     /\ returned'.p # p
               /\ LastCall(LogAfter(p)).failed
                  => /\ returned'.p = p
                     /\ returned'.err = "creating/updating"
         /\ (SsisAt(p, "read") /\ op[p] = "Update")
            => /\ ReadStep(p)
               /\ Len(returned'.log) = 2]_vars

\* An update is about to issue its CreateOrUpdate call for a tracked runtime
\* that no longer exists, and has made no call before it.
C24_Witness ==
    /\ resource = SSIS
    /\ \E p \in Procs :
         /\ op[p] = "Update"
         /\ pc[p] = "write"
         /\ IsTracked(p)
         /\ loc[p].id = d[p].id
         /\ log[p] = <<>>
         /\ runtime = Nil

\* The arguments Read sets from the properties of a managed runtime.
SsisManagedFields ==
    {"description", "pipeline_external_compute_scale", "catalog_info",
     "custom_setup_script", "express_custom_setup"}

\* The Get of the step's Read returned a runtime whose properties are not of
\* the managed type.
FetchedNotManaged(calls) ==
    /\ LastCall(calls).status = "ok"
    /\ LastCall(calls).Model # Nil
    /\ LastCall(calls).Model[1].Properties.Type # "Managed"

(***************************************************************************)
(* C25.  When the Get of the SSIS Read (the Read handler, after an import  *)
(* or not, or the Read that ends CreateUpdate) returns a runtime whose     *)
(* properties are not of the managed runtime type, Read returns an error   *)
(* and the record stays tracked under its ID: it is not removed, and none  *)
(* of the arguments read from the compute and SSIS properties is written   *)
(* (name and data_factory_id, set before the type is looked at, are those  *)
(* of the ID).                                                             *)
(***************************************************************************)
C25_NotManagedIsError ==
    [][\A p \in Procs :
         (resource = SSIS /\ ReadStep(p) /\ FetchedNotManaged(returned'.log))
         => /\ returned'.err = "asserting"
            /\ d[p].id # EmptyString
            /\ d'[p].id = d[p].id
            /\ \A f \in SsisManagedFields : d'[p][f] = d[p][f]
            /\ d'[p].name = d[p].id[4]
            /\ d'[p].data_factory_id = NewFactoryID(d[p].id)]_vars

\* The Read of an imported record found a self-hosted runtime: it returned
\* the error, and the record is tracked with none of the blocks set.
C25_Witness ==
    /\ resource = SSIS
    /\ returned.op = "Read"
    /\ returned.err = "asserting"
    /\ LastCall(returned.log).Model # Nil
    /\ LastCall(returned.log).Model[1].Properties.Type = "SelfHosted"
    /\ IsTracked(returned.p)
    /\ d[returned.p].catalog_info = <<>>
    /\ d[returned.p].name = "ir1"

(***************************************************************************)
(* C26.  For every successful Get response, whatever optional properties   *)
(* it carries or lacks (a Properties value without storageAccount or       *)
(* without publicNetworkAccess included), the AI Foundry Read returns      *)
(* either no error or an error value: it never aborts abnormally.          *)
(***************************************************************************)
C26_ReadNeverAborts ==
    (/\ resource = AIF
     /\ returned.op = "Read"
     /\ returned.log # <<>>
     /\ LastCall(returned.log).status = "ok")
    => returned.err # "panic"

====
